---------------------------- MODULE Spec2Model ----------------------------
(***************************************************************************)
(* Model of the document assembler and PDF layout engine of noteflow       *)
(* (server/src/utils/pdfGenerator.js, here src/unnamed/part_009):          *)
(*   generateDocumentFromContent  builds the section list (plan-driven or  *)
(*                                positional) and runs the catch chain     *)
(*   generatePDF                  renders the sections one after another    *)
(*   addImage                     embeds, sizes and places one image        *)
(*                                                                         *)
(* Strings that the code compares (headings, captions, flowchart names,    *)
(* concept names) are sequences of one-character strings, so that          *)
(* toLowerCase, includes, === and length are computed, not assumed.        *)
(* Body text, of which the assembler only tests truthiness, is a TLA+      *)
(* string.  Indices are 1-based here and 0-based in the code.              *)
(***************************************************************************)
EXTENDS Integers, Sequences, FiniteSets, TLC

VARIABLES
    noteData,       \* argument: [given, summary, concepts_diagram]
    diagrams,       \* argument: sequence of diagram results
    flowcharts,     \* argument: sequence of flowchart results
    docStructure,   \* argument: [given, title, sections]
    faultsOn,       \* whether the library primitives may raise faults
    pc,             \* position inside generateDocumentFromContent
    stage,          \* which build of the catch chain is running
    secIdx,         \* plan path: index of the planned section processed next
    usedVisuals,    \* plan path: the Set usedVisuals
    content,        \* the content object handed to generatePDF
    renderIdx,      \* generatePDF: index of the section rendered next
    drawn,          \* generatePDF: draw commands issued on the document
    error,          \* the error caught by the catch of the primary build:
                    \* [kind, stage], stage being the build that raised it
    pending,        \* the error travelling to the next catch, or thrown
    failed,         \* history: the builds that have thrown, in order
    faults,         \* number of primitive faults raised so far
    result,         \* outcome of the call
    image,          \* addImage: natural size and role of the embedded image
    dimensions,     \* addImage: computed dimensions
    layout,         \* generatePDF: cursor y, pages and placements (tenths of a point)
    batch,          \* generateAllDiagrams / generateAllFlowcharts: one batch of prompts
    glyph           \* generatePDF: the strings measured and drawn for one section

vars == <<noteData, diagrams, flowcharts, docStructure, faultsOn, pc, stage,
          secIdx, usedVisuals, content, renderIdx, drawn, error, pending,
          failed, faults, result, image, dimensions, layout, batch, glyph>>

-----------------------------------------------------------------------------
(* Bounds of the model                                                     *)

MaxDiagrams == 1
MaxFlowcharts == 2
MaxSections == 2
\* the whole call with faults: results per kind, planned sections, faults
MaxCallVisuals == 1
MaxCallSections == 1
MaxFaults == 3
\* natural image sizes are the multiples of SizeStep up to MaxSizeSteps steps
SizeStep == 64
MaxSizeSteps == 25
\* the layout: sections of a content, words of a long text, and the width
\* in points of one word with its trailing space at size 12
MaxLayoutSections == 5
MaxWords == 24
WordWidth == 100
\* prompts of one batch
MaxPrompts == 2
\* strings: words of a body text, drawText calls that can fail for a
\* reason other than their text, lines that fit beside an image, tenths
\* of a point per glyph at size 12, glyphs per right-column line and per
\* full-width line
MaxTextWords == 3
MaxDrawFaults == 4
MaxRoom == 2
GlyphWidth == 60
ColumnChars == 3
PageChars == 5

-----------------------------------------------------------------------------
(* Strings                                                                 *)

UpperChars == <<"A","B","C","D","E","F","G","H","I","J","K","L","M",
                "N","O","P","Q","R","S","T","U","V","W","X","Y","Z">>
LowerChars == <<"a","b","c","d","e","f","g","h","i","j","k","l","m",
                "n","o","p","q","r","s","t","u","v","w","x","y","z">>

\* the lower-case letter of each upper-case letter
lowerOf ==
    [c \in {UpperChars[k] : k \in 1..Len(UpperChars)} |->
        LowerChars[CHOOSE k \in 1..Len(UpperChars) : UpperChars[k] = c]]

\* String.prototype.toLowerCase
toLowerCase(s) ==
    [i \in 1..Len(s) |-> IF s[i] \in DOMAIN lowerOf THEN lowerOf[s[i]] ELSE s[i]]

\* String.prototype.includes
includes(s, t) ==
    \E i \in 0..(Len(s) - Len(t)) : SubSeq(s, i + 1, i + Len(t)) = t

\* JavaScript truthiness of a string
Truthy(s) == Len(s) > 0

\* a || b on strings
OrElse(a, b) == IF Truthy(a) THEN a ELSE b

\* the decimal rendering of a small number inside a template string
NumStr(n) == <<ToString(n)>>

sFlow == <<"F","l","o","w">>
sflow == <<"f","l","o","w">>
saflow == <<"a","f","l","o","w">>
sflowb == <<"f","l","o","w","b">>
sxy == <<"x","y">>
sSummary == <<"S","u","m","m","a","r","y">>
sConcept == <<"C","o","n","c","e","p","t"," ">>
sDiagram == <<"D","i","a","g","r","a","m"," ">>
sFlowchart == <<"F","l","o","w","c","h","a","r","t">>
sNoteSummary == <<"N","o","t","e"," ","S","u","m","m","a","r","y">>
sContentSummary == <<"C","o","n","t","e","n","t"," ","S","u","m","m","a","r","y">>
sErrorInformation == <<"E","r","r","o","r"," ","I","n","f","o","r","m","a","t","i","o","n">>
sProcessWorkflow == <<"P","r","o","c","e","s","s"," ","W","o","r","k","f","l","o","w">>

\* the keyword list of the least precise matching strategy
keywords == << <<"p","r","o","c","e","s","s">>,
               <<"f","l","o","w">>,
               <<"a","l","g","o","r","i","t","h","m">>,
               <<"p","r","o","c","e","d","u","r","e">>,
               <<"w","o","r","k","f","l","o","w">>,
               <<"s","e","q","u","e","n","c","e">>,
               <<"s","t","e","p","s">> >>

-----------------------------------------------------------------------------
(* Inputs                                                                  *)

\* A buffer is "png" (embeddable), "junk" (bytes that are neither PNG nor
\* JPEG), "empty" (a Buffer of length 0) or "null" (absent: the result
\* carries an error instead).
hasBuffer(b) == b # "null"

SeqsUpTo(S, n) == UNION {[1..k -> S] : k \in 0..n}

DiagramPool == {[buffer |-> "png", error |-> "null"],
                [buffer |-> "null", error |-> "rate limited"]}

FlowchartPool == {[name |-> sflow,  buffer |-> "png",  error |-> "null"],
                  [name |-> saflow, buffer |-> "png",  error |-> "null"],
                  [name |-> sflow,  buffer |-> "null", error |-> "mmdc failed"]}

PlanSectionPool ==
    {[heading |-> sFlow,  content |-> "body", includeImage |-> TRUE,  imageCaption |-> <<>>],
     [heading |-> sflowb, content |-> "body", includeImage |-> TRUE,  imageCaption |-> <<>>],
     [heading |-> <<>>,   content |-> "body", includeImage |-> TRUE,  imageCaption |-> <<>>],
     [heading |-> sxy,    content |-> "",     includeImage |-> TRUE,  imageCaption |-> saflow],
     [heading |-> sxy,    content |-> "body", includeImage |-> FALSE, imageCaption |-> <<>>]}

\* given = FALSE stands for a null argument
NoteDataPool == {[given |-> TRUE, summary |-> "summary", concepts_diagram |-> <<>>],
                 [given |-> TRUE, summary |-> "summary", concepts_diagram |-> <<sflow, sxy>>]}

NullDocStructure == [given |-> FALSE, title |-> "", sections |-> <<>>]

DocStructurePool ==
    {NullDocStructure, [given |-> TRUE, title |-> "", sections |-> <<>>]}
    \cup {[given |-> TRUE, title |-> "Title", sections |-> ss] :
             ss \in SeqsUpTo(PlanSectionPool, MaxSections)}

-----------------------------------------------------------------------------
(* generateDocumentFromContent: plan-driven assembly                       *)

NoVisual == <<"none", 0>>

\* fullOutput.concepts_diagram[d], '' when the list or the entry is missing
conceptAt(d) ==
    IF noteData.given /\ d <= Len(noteData.concepts_diagram)
    THEN noteData.concepts_diagram[d] ELSE <<>>

NumStrategies == 5

\* matchStrategies[k - 1](flowchartName)
matchStrategies(k, sectionName, sectionCaption, flowchartName) ==
    CASE k = 1 -> sectionName = flowchartName
      [] k = 2 -> includes(sectionName, flowchartName) /\ Len(flowchartName) > 3
      [] k = 3 -> includes(flowchartName, sectionName) /\ Len(sectionName) > 3
      [] k = 4 -> includes(sectionCaption, flowchartName) /\ Len(flowchartName) > 3
      [] k = 5 -> \E j \in 1..Len(keywords) :
                     includes(sectionName, keywords[j]) /\ includes(flowchartName, keywords[j])

\* the inner loop over the flowcharts for one strategy: the index of the
\* first buffered, unused flowchart the strategy accepts, 0 when none
RECURSIVE scanFlowcharts(_, _, _, _)
scanFlowcharts(k, i, section, used) ==
    IF i > Len(flowcharts) THEN 0
    ELSE IF ~hasBuffer(flowcharts[i].buffer) \/ <<"flow", i>> \in used
         THEN scanFlowcharts(k, i + 1, section, used)
    ELSE IF matchStrategies(k, toLowerCase(section.heading),
                            toLowerCase(section.imageCaption),
                            toLowerCase(flowcharts[i].name))
         THEN i
    ELSE scanFlowcharts(k, i + 1, section, used)

\* Variant of tryStrategies with the two loops exchanged: each flowchart in
\* turn is offered to all strategies before the next flowchart is looked at.
RECURSIVE tryStrategiesFlowchartMajor(_, _, _)
tryStrategiesFlowchartMajor(i, section, used) ==
    IF i > Len(flowcharts) THEN [strategy |-> 0, index |-> 0]
    ELSE IF ~hasBuffer(flowcharts[i].buffer) \/ <<"flow", i>> \in used
         THEN tryStrategiesFlowchartMajor(i + 1, section, used)
    ELSE LET K == {k \in 1..NumStrategies :
                     matchStrategies(k, toLowerCase(section.heading),
                                     toLowerCase(section.imageCaption),
                                     toLowerCase(flowcharts[i].name))}
         IN  IF K # {} THEN [strategy |-> CHOOSE k \in K : \A m \in K : k <= m, index |-> i]
             ELSE tryStrategiesFlowchartMajor(i + 1, section, used)

\* the outer loop over the strategies: "Try each strategy until we find a match"
RECURSIVE tryStrategies(_, _, _)
tryStrategies(k, section, used) ==
    IF k > NumStrategies THEN [strategy |-> 0, index |-> 0]
    ELSE LET i == scanFlowcharts(k, 1, section, used)
         IN  IF i # 0 THEN [strategy |-> k, index |-> i]
             ELSE tryStrategies(k + 1, section, used)

matchFlowchart(section, used) ==
    IF Len(flowcharts) > 0 THEN tryStrategies(1, section, used)
    ELSE [strategy |-> 0, index |-> 0]

\* the concept-name test of the diagram loop
diagramNameMatches(section, d) ==
    LET conceptName == toLowerCase(conceptAt(d))
        sectionName == toLowerCase(section.heading)
    IN  Truthy(conceptName)
        /\ (\/ includes(sectionName, conceptName)
            \/ includes(conceptName, sectionName)
            \/ (Truthy(section.imageCaption)
                /\ includes(toLowerCase(section.imageCaption), conceptName)))

\* "If no flowchart assigned, check for a matching diagram"
RECURSIVE matchDiagram(_, _, _)
matchDiagram(d, section, used) ==
    IF d > Len(diagrams) THEN 0
    ELSE IF ~hasBuffer(diagrams[d].buffer) \/ <<"diagram", d>> \in used
         THEN matchDiagram(d + 1, section, used)
    ELSE IF diagramNameMatches(section, d) THEN d
    ELSE matchDiagram(d + 1, section, used)

\* Variant of anyFlowchart without the usedVisuals test.
RECURSIVE anyFlowchartIgnoringUsed(_, _)
anyFlowchartIgnoringUsed(i, used) ==
    IF i > Len(flowcharts) THEN 0
    ELSE IF hasBuffer(flowcharts[i].buffer) THEN i
    ELSE anyFlowchartIgnoringUsed(i + 1, used)

\* "First try ANY unassigned flowchart"
RECURSIVE anyFlowchart(_, _)
anyFlowchart(i, used) ==
    IF i > Len(flowcharts) THEN 0
    ELSE IF hasBuffer(flowcharts[i].buffer) /\ <<"flow", i>> \notin used THEN i
    ELSE anyFlowchart(i + 1, used)

\* Variant of anyDiagram that looks up the flowchart key of the same index.
RECURSIVE anyDiagramWrongKey(_, _)
anyDiagramWrongKey(i, used) ==
    IF i > Len(diagrams) THEN 0
    ELSE IF hasBuffer(diagrams[i].buffer) /\ <<"flow", i>> \notin used THEN i
    ELSE anyDiagramWrongKey(i + 1, used)

\* "Then try ANY unassigned diagram"
RECURSIVE anyDiagram(_, _)
anyDiagram(i, used) ==
    IF i > Len(diagrams) THEN 0
    ELSE IF hasBuffer(diagrams[i].buffer) /\ <<"diagram", i>> \notin used THEN i
    ELSE anyDiagram(i + 1, used)

\* The visual chosen for a planned section flagged includeImage:
\* [via, src, caption], src = NoVisual when nothing is left to assign.
assignVisual(section, used) ==
    LET f == matchFlowchart(section, used)
        d == IF Len(diagrams) > 0 THEN matchDiagram(1, section, used) ELSE 0
        af == anyFlowchart(1, used)
        ad == anyDiagram(1, used)
    IN  IF f.index # 0
        THEN [via |-> "strategy", strategy |-> f.strategy, src |-> <<"flow", f.index>>,
              caption |-> OrElse(section.imageCaption, flowcharts[f.index].name)]
        ELSE IF d # 0
        THEN [via |-> "concept", strategy |-> 0, src |-> <<"diagram", d>>,
              caption |-> OrElse(section.imageCaption, toLowerCase(conceptAt(d)))]
        ELSE IF af # 0
        THEN [via |-> "any", strategy |-> 0, src |-> <<"flow", af>>,
              caption |-> OrElse(section.imageCaption,
                                 OrElse(flowcharts[af].name, sFlowchart))]
        ELSE IF ad # 0
        THEN [via |-> "any", strategy |-> 0, src |-> <<"diagram", ad>>,
              caption |-> OrElse(section.imageCaption,
                                 OrElse(conceptAt(ad), sDiagram \o NumStr(ad)))]
        ELSE [via |-> "none", strategy |-> 0, src |-> NoVisual,
              caption |-> section.imageCaption]

\* the buffer a visual carries
bufferOf(src) ==
    CASE src[1] = "flow" -> flowcharts[src[2]].buffer
      [] src[1] = "diagram" -> diagrams[src[2]].buffer
      [] OTHER -> "null"

\* newSection of one iteration of the loop over docStructure.sections.
\* src records which result the copied buffer came from.
newSection(section, used) ==
    LET a == IF section.includeImage THEN assignVisual(section, used)
             ELSE [via |-> "none", strategy |-> 0, src |-> NoVisual,
                   caption |-> section.imageCaption]
    IN  [heading |-> section.heading,
         text |-> section.content,
         layout |-> IF section.includeImage THEN "text-with-image" ELSE "text-only",
         imageCaption |-> a.caption,
         imageBuffer |-> bufferOf(a.src),
         isFlowchart |-> a.src[1] = "flow",
         src |-> a.src]


\* Variant of unassignedFlowcharts that stops after the first appended section.
unassignedFlowchartsFirstOnly(i, used, count) ==
    LET S == {j \in i..Len(flowcharts) :
                hasBuffer(flowcharts[j].buffer) /\ <<"flow", j>> \notin used}
    IN  IF S = {} THEN <<>>
        ELSE LET j == CHOOSE x \in S : \A y \in S : x <= y
             IN  << [heading |-> OrElse(flowcharts[j].name, sProcessWorkflow)
                                    \o <<" ">> \o NumStr(count + 1),
                      text |-> "This flowchart illustrates",
                      layout |-> "text-with-image",
                      imageCaption |-> OrElse(flowcharts[j].name,
                                              sFlowchart \o <<" ">> \o NumStr(j)),
                      imageBuffer |-> flowcharts[j].buffer,
                      isFlowchart |-> TRUE,
                      src |-> <<"flow", j>>] >>

\* the loop "add any remaining unassigned flowcharts as new sections",
\* from flowchart i on, count sections already appended
RECURSIVE unassignedFlowcharts(_, _, _)
unassignedFlowcharts(i, used, count) ==
    IF i > Len(flowcharts) THEN <<>>
    ELSE IF hasBuffer(flowcharts[i].buffer) /\ <<"flow", i>> \notin used
         THEN << [heading |-> OrElse(flowcharts[i].name, sProcessWorkflow)
                                \o <<" ">> \o NumStr(count + 1),
                  text |-> "This flowchart illustrates",
                  layout |-> "text-with-image",
                  imageCaption |-> OrElse(flowcharts[i].name, sFlowchart \o <<" ">> \o NumStr(i)),
                  imageBuffer |-> flowcharts[i].buffer,
                  isFlowchart |-> TRUE,
                  src |-> <<"flow", i>>] >>
              \o unassignedFlowcharts(i + 1, used, count + 1)
    ELSE unassignedFlowcharts(i + 1, used, count)

\* docStructure && docStructure.title && docStructure.sections
planUsable == docStructure.given /\ docStructure.title # ""

-----------------------------------------------------------------------------
(* generateDocumentFromContent: positional assembly                        *)

\* fullOutput.summary || noteData.summary || 'No summary available'; a
\* summary that is no string ("object") is drawn as String(summary)
summaryText ==
    CASE noteData.summary = "" -> "No summary available"
      [] noteData.summary = "object" -> "[object Object]"
      [] OTHER -> noteData.summary

RECURSIVE diagramSections(_)
diagramSections(i) ==
    IF i > Len(diagrams) THEN <<>>
    ELSE IF hasBuffer(diagrams[i].buffer)
         THEN << [heading |-> OrElse(conceptAt(i), sConcept \o NumStr(i)),
                  text |-> "",
                  layout |-> "text-with-image",
                  imageCaption |-> OrElse(conceptAt(i), sConcept \o NumStr(i)),
                  imageBuffer |-> diagrams[i].buffer,
                  isFlowchart |-> FALSE,
                  src |-> <<"diagram", i>>] >>
              \o diagramSections(i + 1)
    ELSE diagramSections(i + 1)

RECURSIVE flowchartSections(_)
flowchartSections(i) ==
    IF i > Len(flowcharts) THEN <<>>
    ELSE IF hasBuffer(flowcharts[i].buffer)
         THEN << [heading |-> flowcharts[i].name,
                  text |-> "",
                  layout |-> "text-with-image",
                  imageCaption |-> flowcharts[i].name,
                  imageBuffer |-> flowcharts[i].buffer,
                  isFlowchart |-> TRUE,
                  src |-> <<"flow", i>>] >>
              \o flowchartSections(i + 1)
    ELSE flowchartSections(i + 1)

summarySection ==
    [heading |-> sSummary, text |-> summaryText, layout |-> "undefined",
     imageCaption |-> <<>>, imageBuffer |-> "null", isFlowchart |-> FALSE,
     src |-> NoVisual]

positionalContent ==
    [title |-> "NoteFlow: AI-Generated Notes",
     sections |-> <<summarySection>> \o diagramSections(1) \o flowchartSections(1)]

-----------------------------------------------------------------------------
(* generatePDF: what one section puts on the document                      *)

cmd(k, op) == [sec |-> k, op |-> op]

\* addText draws nothing for an empty text
textCmds(k, op, present) == IF present THEN <<cmd(k, op)>> ELSE <<>>

\* The ways a call of addImage on a non-null buffer can end:
\*   "placed"        embedded, drawn, captioned: the placement is returned
\*   "notEmbedded"   embedPng and embedJpg both failed: null is returned
\*   "drawFailed"    drawImage threw: caught, null is returned
\*   "captionFailed" the image is drawn, the caption's drawText threw:
\*                   caught, null is returned
addImageOutcomes(buffer, caption) ==
    IF buffer = "png"
    THEN {"placed"}
         \cup (IF faultsOn THEN {"notEmbedded", "drawFailed"} ELSE {})
         \cup (IF faultsOn /\ Truthy(caption) THEN {"captionFailed"} ELSE {})
    ELSE {"notEmbedded"}

addImage(k, caption, outcome) ==
    <<cmd(k, "embed")>>
    \o (IF outcome \in {"placed", "captionFailed"} THEN <<cmd(k, "image")>> ELSE <<>>)
    \o (IF outcome = "placed" /\ Truthy(caption) THEN <<cmd(k, "caption")>> ELSE <<>>)

\* the body of the loop over content.sections, with addImage ending in outcome
renderSection(section, k, outcome) ==
    textCmds(k, "heading", Truthy(section.heading))
    \o (IF section.layout = "text-with-image" /\ section.imageBuffer # "null"
        THEN IF section.isFlowchart
             THEN textCmds(k, "text", section.text # "")
                  \o (IF section.imageBuffer # "empty"
                      THEN addImage(k, section.imageCaption, outcome)
                      ELSE <<cmd(k, "placeholder")>>)
             ELSE IF section.text # ""
                  THEN addImage(k, section.imageCaption, outcome)
                       \o textCmds(k, "text", outcome = "placed")
                  ELSE addImage(k, section.imageCaption, outcome)
        ELSE textCmds(k, "text", section.text # ""))

\* the draw commands of a section whose text draw can escape generatePDF:
\* those issued by addText (final line, after the failed retry) and by the
\* side-by-side loop, not those issued inside addImage
throwingOps == {"title", "heading", "text", "placeholder"}

-----------------------------------------------------------------------------
(* Initial states                                                          *)

NoImage == [width |-> 0, height |-> 0, isFlowchart |-> FALSE]
NoDimensions == [width |-> [n |-> 0, d |-> 1], height |-> [n |-> 0, d |-> 1]]
NoContent == [title |-> "", sections |-> <<>>]
NoError == [kind |-> "none", stage |-> "none"]
NoLayout == [pc |-> "off"]
NoBatch == [pc |-> "off"]
NoGlyph == [pc |-> "off"]

InitCall ==
    /\ pc = "start"
    /\ stage = "primary"
    /\ secIdx = 0
    /\ usedVisuals = {}
    /\ content = NoContent
    /\ renderIdx = 0
    /\ drawn = <<>>
    /\ error = NoError
    /\ pending = NoError
    /\ failed = <<>>
    /\ faults = 0
    /\ result = "none"
    /\ image = NoImage
    /\ dimensions = NoDimensions
    /\ layout = NoLayout
    /\ batch = NoBatch
    /\ glyph = NoGlyph

Init ==
    /\ noteData \in NoteDataPool
    /\ diagrams \in SeqsUpTo(DiagramPool, MaxDiagrams)
    /\ flowcharts \in SeqsUpTo(FlowchartPool, MaxFlowcharts)
    /\ docStructure \in DocStructurePool
    /\ faultsOn = FALSE
    /\ InitCall

inputs == <<noteData, diagrams, flowcharts, docStructure, faultsOn>>
sizing == <<image, dimensions>>
others == <<layout, batch, glyph>>

-----------------------------------------------------------------------------
(* generateDocumentFromContent: the primary build                          *)

\* the plan branch is taken: content and usedVisuals are created
StartPlan ==
    /\ pc = "start"
    /\ planUsable
    /\ pc' = "plan"
    /\ secIdx' = 1
    /\ usedVisuals' = {}
    /\ content' = [title |-> docStructure.title, sections |-> <<>>]
    /\ UNCHANGED <<inputs, sizing, others, failed, stage, renderIdx, drawn, error, pending, faults, result>>

\* one iteration of "for (const section of docStructure.sections)"
ProcessPlanSection ==
    /\ pc = "plan"
    /\ secIdx <= Len(docStructure.sections)
    /\ LET ns == newSection(docStructure.sections[secIdx], usedVisuals)
       IN  /\ content' = [content EXCEPT !.sections = Append(@, ns)]
           /\ usedVisuals' = IF ns.src = NoVisual THEN usedVisuals
                             ELSE usedVisuals \cup {ns.src}
    /\ secIdx' = secIdx + 1
    /\ UNCHANGED <<inputs, sizing, others, failed, pc, stage, renderIdx, drawn, error, pending, faults, result>>

\* after the loop: the unassigned flowcharts become trailing sections and
\* the content goes to generatePDF
AppendUnassignedFlowcharts ==
    /\ pc = "plan"
    /\ secIdx > Len(docStructure.sections)
    /\ LET extra == unassignedFlowcharts(1, usedVisuals, 0)
       IN  /\ content' = [content EXCEPT !.sections = @ \o extra]
           /\ usedVisuals' = usedVisuals \cup {extra[j].src : j \in 1..Len(extra)}
    /\ pc' = "pdf"
    /\ UNCHANGED <<inputs, sizing, others, failed, stage, secIdx, renderIdx, drawn, error, pending, faults, result>>

\* the else branch: summary, diagrams, flowcharts
BuildPositional ==
    /\ pc = "start"
    /\ ~planUsable
    /\ noteData.given
    /\ content' = positionalContent
    /\ pc' = "pdf"
    /\ UNCHANGED <<inputs, sizing, others, failed, stage, secIdx, usedVisuals, renderIdx, drawn, error,
                   pending, faults, result>>

\* The assembly of the section list, up to the call of generatePDF.
Next ==
    \/ StartPlan
    \/ ProcessPlanSection
    \/ AppendUnassignedFlowcharts
    \/ BuildPositional

Spec == Init /\ [][Next]_vars

-----------------------------------------------------------------------------
(* generatePDF                                                             *)

\* document, fonts, first page and title
BeginPDF ==
    /\ pc = "pdf"
    /\ drawn' = textCmds(0, "title", content.title # "")
    /\ renderIdx' = 1
    /\ pc' = "sections"
    /\ UNCHANGED <<inputs, sizing, others, failed, stage, secIdx, usedVisuals, content, error, pending,
                   faults, result>>

\* one iteration of "for (const section of content.sections)"
RenderSection ==
    /\ pc = "sections"
    /\ renderIdx <= Len(content.sections)
    /\ LET section == content.sections[renderIdx]
       IN  \E outcome \in addImageOutcomes(section.imageBuffer, section.imageCaption) :
              /\ drawn' = drawn \o renderSection(section, renderIdx, outcome)
              /\ faults' = IF outcome = "placed" \/ section.imageBuffer # "png"
                           THEN faults ELSE faults + 1
              /\ faults' <= MaxFaults
    /\ renderIdx' = renderIdx + 1
    /\ UNCHANGED <<inputs, sizing, others, failed, pc, stage, secIdx, usedVisuals, content, error, pending,
                   result>>

\* pdfDoc.save() and Buffer.from(pdfBytes): the document is returned
SavePDF ==
    /\ pc = "sections"
    /\ renderIdx > Len(content.sections)
    /\ result' = "buffer"
    /\ pc' = "done"
    /\ UNCHANGED <<inputs, sizing, others, failed, stage, secIdx, usedVisuals, content, renderIdx, drawn,
                   error, pending, faults>>


-----------------------------------------------------------------------------
(* generateDocumentFromContent: the catch chain                            *)

\* the kind of an error: "encoding" when its message includes
\* "WinAnsi cannot encode" or "0x000a", "other" otherwise
ErrorKinds == {"encoding", "other"}

textOnly(heading, text) ==
    [heading |-> heading, text |-> text, layout |-> "text-only", imageCaption |-> <<>>,
     imageBuffer |-> "null", isFlowchart |-> FALSE, src |-> NoVisual]

summaryGiven == noteData.given /\ noteData.summary # ""

RECURSIVE simplifiedDiagrams(_)
simplifiedDiagrams(i) ==
    IF i > Len(diagrams) THEN <<>>
    ELSE IF hasBuffer(diagrams[i].buffer)
         THEN << [heading |-> sDiagram \o NumStr(i), text |-> "",
                  layout |-> "text-with-image",
                  imageCaption |-> sDiagram \o NumStr(i),
                  imageBuffer |-> diagrams[i].buffer,
                  isFlowchart |-> FALSE, src |-> <<"diagram", i>>] >>
              \o simplifiedDiagrams(i + 1)
    ELSE simplifiedDiagrams(i + 1)

RECURSIVE simplifiedFlowcharts(_)
simplifiedFlowcharts(i) ==
    IF i > Len(flowcharts) THEN <<>>
    ELSE IF hasBuffer(flowcharts[i].buffer)
         THEN << [heading |-> sFlowchart \o <<" ">> \o NumStr(i), text |-> "",
                  layout |-> "text-with-image",
                  imageCaption |-> OrElse(flowcharts[i].name,
                                          sFlowchart \o <<" ">> \o NumStr(i)),
                  imageBuffer |-> flowcharts[i].buffer,
                  isFlowchart |-> TRUE, src |-> <<"flow", i>>] >>
              \o simplifiedFlowcharts(i + 1)
    ELSE simplifiedFlowcharts(i + 1)

\* the content of the recovery after an encoding error
simplifiedContent ==
    [title |-> "PDF Document (Simplified Version)",
     sections |-> <<textOnly(sNoteSummary, "The original note content contained characters")>>
                  \o (IF summaryGiven
                      THEN <<textOnly(sContentSummary, "safeSummary")>> ELSE <<>>)
                  \o simplifiedDiagrams(1)
                  \o simplifiedFlowcharts(1)]

\* the content of the error document
errorContent ==
    [title |-> "Error Generating PDF",
     sections |-> <<textOnly(sErrorInformation, "An error occurred while generating this PDF"),
                    textOnly(sContentSummary,
                             IF summaryGiven THEN "safeSummaryText"
                             ELSE "No summary available")>>]

\* summaryText.replace is no function when the summary is no string
errorContentThrows == noteData.given /\ noteData.summary = "object"

\* "Return a simple error PDF instead of failing completely": build
\* errorContent and call generatePDF, or fall to the last resort when
\* building it throws
toErrorDocument ==
    IF errorContentThrows
    THEN /\ stage' = "lastResort"
         /\ pc' = "lastResort"
         /\ failed' = Append(failed, "errorDoc")
         /\ UNCHANGED content
    ELSE /\ stage' = "errorDoc"
         /\ pc' = "pdf"
         /\ content' = errorContent
         /\ UNCHANGED failed

\* the build of the else branch throws on noteData.summary of a null noteData
BuildPositionalThrows ==
    /\ pc = "start"
    /\ ~planUsable
    /\ ~noteData.given
    /\ pending' = [kind |-> "other", stage |-> stage]
    /\ failed' = Append(failed, stage)
    /\ pc' = "catch"
    /\ UNCHANGED <<inputs, sizing, others, stage, secIdx, usedVisuals, content, renderIdx, drawn,
                   error, faults, result>>

\* the catch of the primary build: the error is kept, an encoding error
\* starts the recovery, any other error the error document
CatchPrimary ==
    /\ pc = "catch"
    /\ stage = "primary"
    /\ error' = pending
    /\ IF pending.kind = "encoding"
       THEN /\ stage' = "recovery"
            /\ content' = simplifiedContent
            /\ pc' = "pdf"
            /\ UNCHANGED failed
       ELSE toErrorDocument
    /\ UNCHANGED <<inputs, sizing, others, secIdx, usedVisuals, renderIdx, drawn, pending, faults,
                   result>>

\* "Recovery attempt failed": fall through to the error document
CatchRecovery ==
    /\ pc = "catch"
    /\ stage = "recovery"
    /\ toErrorDocument
    /\ UNCHANGED <<inputs, sizing, others, secIdx, usedVisuals, renderIdx, drawn, error, pending,
                   faults, result>>

\* Variant of CatchErrorDocument that rethrows instead of trying the last resort.
CatchErrorDocumentRethrows ==
    /\ pc = "catch"
    /\ stage = "errorDoc"
    /\ result' = "thrown"
    /\ pc' = "done"
    /\ UNCHANGED <<inputs, sizing, others, failed, stage, secIdx, usedVisuals, content, renderIdx, drawn,
                   error, pending, faults>>

\* "Failed to create error PDF": on to the last resort
CatchErrorDocument ==
    /\ pc = "catch"
    /\ stage = "errorDoc"
    /\ stage' = "lastResort"
    /\ pc' = "lastResort"
    /\ UNCHANGED <<inputs, sizing, others, failed, secIdx, usedVisuals, content, renderIdx, drawn, error,
                   pending, faults, result>>

\* the last resort: a new document, one page, two lines, saved and returned
LastResort ==
    /\ pc = "lastResort"
    /\ drawn' = <<cmd(0, "title"), cmd(0, "text")>>
    /\ result' = "buffer"
    /\ pc' = "done"
    /\ UNCHANGED <<inputs, sizing, others, failed, stage, secIdx, usedVisuals, content, renderIdx, error,
                   pending, faults>>

\* Variant of LastResortThrows that throws the error of the last resort itself.
LastResortThrowsLastError ==
    /\ pc = "lastResort"
    /\ faultsOn /\ faults < MaxFaults
    /\ faults' = faults + 1
    /\ pending' = [kind |-> "other", stage |-> stage]
    /\ failed' = Append(failed, stage)
    /\ result' = "thrown"
    /\ pc' = "done"
    /\ UNCHANGED <<inputs, sizing, others, stage, secIdx, usedVisuals, content, renderIdx, drawn,
                   error>>

\* a primitive of the last resort throws: the original error is thrown
LastResortThrows ==
    /\ pc = "lastResort"
    /\ faultsOn /\ faults < MaxFaults
    /\ faults' = faults + 1
    /\ pending' = error
    /\ failed' = Append(failed, stage)
    /\ result' = "thrown"
    /\ pc' = "done"
    /\ UNCHANGED <<inputs, sizing, others, stage, secIdx, usedVisuals, content, renderIdx, drawn,
                   error>>

\* generatePDF throws before the first section: document creation, font
\* embedding or the title's last line
BeginPDFThrows ==
    /\ pc = "pdf"
    /\ faultsOn /\ faults < MaxFaults
    /\ faults' = faults + 1
    /\ \E kind \in ErrorKinds : pending' = [kind |-> kind, stage |-> stage]
    /\ failed' = Append(failed, stage)
    /\ drawn' = <<>>
    /\ pc' = "catch"
    /\ UNCHANGED <<inputs, sizing, others, stage, secIdx, usedVisuals, content, renderIdx, error,
                   result>>

\* generatePDF throws inside a section: a text draw outside addImage fails
\* twice; the commands before it stay on the abandoned document
RenderSectionThrows ==
    /\ pc = "sections"
    /\ renderIdx <= Len(content.sections)
    /\ faultsOn /\ faults < MaxFaults
    /\ faults' = faults + 1
    /\ LET section == content.sections[renderIdx]
       IN  \E outcome \in addImageOutcomes(section.imageBuffer, section.imageCaption) :
              LET cmds == renderSection(section, renderIdx, outcome)
              IN  \E j \in 1..Len(cmds) :
                     /\ cmds[j].op \in throwingOps
                     /\ drawn' = drawn \o SubSeq(cmds, 1, j - 1)
    /\ \E kind \in ErrorKinds : pending' = [kind |-> kind, stage |-> stage]
    /\ failed' = Append(failed, stage)
    /\ pc' = "catch"
    /\ UNCHANGED <<inputs, sizing, others, stage, secIdx, usedVisuals, content, renderIdx, error,
                   result>>

\* pdfDoc.save() throws
SavePDFThrows ==
    /\ pc = "sections"
    /\ renderIdx > Len(content.sections)
    /\ faultsOn /\ faults < MaxFaults
    /\ faults' = faults + 1
    /\ pending' = [kind |-> "other", stage |-> stage]
    /\ failed' = Append(failed, stage)
    /\ pc' = "catch"
    /\ UNCHANGED <<inputs, sizing, others, stage, secIdx, usedVisuals, content, renderIdx, drawn,
                   error, result>>

CallDiagramPool == {[buffer |-> "png", error |-> "null"],
                    [buffer |-> "junk", error |-> "null"],
                    [buffer |-> "null", error |-> "rate limited"]}

CallFlowchartPool == {[name |-> sflow, buffer |-> "png", error |-> "null"],
                      [name |-> sflow, buffer |-> "junk", error |-> "null"],
                      [name |-> sflow, buffer |-> "empty", error |-> "null"],
                      [name |-> sflow, buffer |-> "null", error |-> "mmdc failed"]}

CallSectionPool ==
    {[heading |-> sFlow, content |-> "body", includeImage |-> TRUE,  imageCaption |-> <<>>],
     [heading |-> <<>>,  content |-> "",     includeImage |-> TRUE,  imageCaption |-> <<>>],
     [heading |-> sxy,   content |-> "body", includeImage |-> FALSE, imageCaption |-> <<>>]}

CallNoteDataPool ==
    {[given |-> FALSE, summary |-> "", concepts_diagram |-> <<>>],
     [given |-> TRUE, summary |-> "summary", concepts_diagram |-> <<>>],
     [given |-> TRUE, summary |-> "object", concepts_diagram |-> <<sflow>>]}

CallDocStructurePool ==
    {NullDocStructure}
    \cup {[given |-> TRUE, title |-> "Title", sections |-> ss] :
             ss \in SeqsUpTo(CallSectionPool, MaxCallSections)}

InitFaulty ==
    /\ noteData \in CallNoteDataPool
    /\ diagrams \in SeqsUpTo(CallDiagramPool, MaxCallVisuals)
    /\ flowcharts \in SeqsUpTo(CallFlowchartPool, MaxCallVisuals)
    /\ docStructure \in CallDocStructurePool
    /\ faultsOn = TRUE
    /\ InitCall

\* The whole call: assembly, rendering and the catch chain, with faults of
\* the library primitives.
NextFaulty ==
    \/ StartPlan
    \/ ProcessPlanSection
    \/ AppendUnassignedFlowcharts
    \/ BuildPositional
    \/ BuildPositionalThrows
    \/ BeginPDF
    \/ BeginPDFThrows
    \/ RenderSection
    \/ RenderSectionThrows
    \/ SavePDF
    \/ SavePDFThrows
    \/ CatchPrimary
    \/ CatchRecovery
    \/ CatchErrorDocument
    \/ LastResort
    \/ LastResortThrows

SpecFaulty == InitFaulty /\ [][NextFaulty]_vars

-----------------------------------------------------------------------------
(* addImage: "Calculate dimensions based on image type"                    *)
(* Lengths are exact rationals [n, d] in points, d > 0, in lowest terms.   *)

pageWidth == 612
pageHeight == 792
margin == 50
contentWidth == pageWidth - (margin * 2)

RECURSIVE GCD(_, _)
GCD(a, b) == IF b = 0 THEN a ELSE GCD(b, a % b)

Rat(n, d) == LET g == GCD(n, d) IN [n |-> n \div g, d |-> d \div g]
RatMul(a, b) == Rat(a.n * b.n, a.d * b.d)
RatDiv(a, b) == Rat(a.n * b.d, a.d * b.n)
RatLess(a, b) == a.n * b.d < b.n * a.d
RatLeq(a, b) == a.n * b.d <= b.n * a.d
RatMin(a, b) == IF RatLess(b, a) THEN b ELSE a

\* Variant of flowchartDimensions that applies the scale factor always.
flowchartDimensionsAlwaysScaled(w, h) ==
    LET maxFlowchartWidth == RatMul(Rat(contentWidth, 1), Rat(8, 10))
        maxFlowchartHeight == RatMul(Rat(pageHeight, 1), Rat(5, 10))
        scale == RatMin(RatDiv(maxFlowchartWidth, Rat(w, 1)),
                        RatDiv(maxFlowchartHeight, Rat(h, 1)))
    IN  [width |-> RatMul(Rat(w, 1), scale), height |-> RatMul(Rat(h, 1), scale)]

\* the isFlowchart branch; image.scale(f) is (width * f, height * f)
flowchartDimensions(w, h) ==
    LET maxFlowchartWidth == RatMul(Rat(contentWidth, 1), Rat(8, 10))
        maxFlowchartHeight == RatMul(Rat(pageHeight, 1), Rat(5, 10))
        widthScale == RatDiv(maxFlowchartWidth, Rat(w, 1))
        heightScale == RatDiv(maxFlowchartHeight, Rat(h, 1))
        scale == RatMin(widthScale, heightScale)
    IN  IF RatLess(scale, Rat(1, 1))
        THEN [width |-> RatMul(Rat(w, 1), scale), height |-> RatMul(Rat(h, 1), scale)]
        ELSE [width |-> Rat(w, 1), height |-> Rat(h, 1)]

\* Variant of diagramDimensions without the height cap.
diagramDimensionsNoHeightCap(w, h) ==
    LET diagramWidth == RatMul(Rat(contentWidth, 1), Rat(5, 10))
    IN  [width |-> diagramWidth, height |-> RatMul(Rat(h, w), diagramWidth)]

\* the diagram branch
diagramDimensions(w, h) ==
    LET diagramWidth == RatMul(Rat(contentWidth, 1), Rat(5, 10))
        scaledHeight == RatMul(Rat(h, w), diagramWidth)
        maxHeight == RatMul(Rat(pageHeight, 1), Rat(4, 10))
    IN  IF RatLess(maxHeight, scaledHeight)
        THEN [width |-> RatMul(Rat(w, h), maxHeight), height |-> maxHeight]
        ELSE [width |-> diagramWidth, height |-> scaledHeight]

NaturalSizes == {SizeStep * k : k \in 1..MaxSizeSteps}

InitSize ==
    /\ noteData = [given |-> FALSE, summary |-> "", concepts_diagram |-> <<>>]
    /\ diagrams = <<>>
    /\ flowcharts = <<>>
    /\ docStructure = NullDocStructure
    /\ faultsOn = FALSE
    /\ pc = "embedded"
    /\ stage = "primary"
    /\ secIdx = 0
    /\ usedVisuals = {}
    /\ content = NoContent
    /\ renderIdx = 0
    /\ drawn = <<>>
    /\ error = NoError
    /\ pending = NoError
    /\ failed = <<>>
    /\ faults = 0
    /\ result = "none"
    /\ image \in [width : NaturalSizes, height : NaturalSizes, isFlowchart : BOOLEAN]
    /\ dimensions = NoDimensions
    /\ layout = NoLayout
    /\ batch = NoBatch
    /\ glyph = NoGlyph

\* addImage, from the embedded image to its dimensions
ComputeDimensions ==
    /\ pc = "embedded"
    /\ dimensions' = IF image.isFlowchart
                     THEN flowchartDimensions(image.width, image.height)
                     ELSE diagramDimensions(image.width, image.height)
    /\ pc' = "sized"
    /\ UNCHANGED <<inputs, others, failed, image, stage, secIdx, usedVisuals, content, renderIdx, drawn,
                   error, pending, faults, result>>

NextSize == ComputeDimensions

SpecSize == InitSize /\ [][NextSize]_vars

-----------------------------------------------------------------------------
(* generatePDF: the page cursor                                            *)
(* Lengths of the layout are integers in tenths of a point.  A text is a   *)
(* sequence of words: "w" is a word without newline, "nl" a word "a\nb"    *)
(* and "nn" a word "a\n\nb".  Every word, and every part of a word,        *)
(* measures WordWidth points with its trailing space at size 12.           *)

Pt(n) == n * 10

\* "const x = e; body": {body : x \in {e}} holds the one value of body
\* with x the value of e, and Only takes it out
Only(S) == CHOOSE v \in S : TRUE

\* width of one word with its trailing space at the given font size
widthOfTextAtSize(words, size) == (words * Pt(WordWidth) * size) \div 12

\* the rational length r, in tenths of a point
Tenths(r) == (r.n * 10) \div r.d

\* the cursor moves down by d
down(L, d) == [L EXCEPT !.y = @ - d, !.consumed = @ + d]

\* currentPage = pdfDoc.addPage(...); y = pageHeight - margin
addPage(L) == [L EXCEPT !.page = @ + 1, !.y = Pt(pageHeight - margin)]

\* "Check if we need a new page"
checkPage(L0) == Only({IF L.y < Pt(margin) THEN addPage(L) ELSE L : L \in {L0}})

\* currentPage.drawText / drawImage at (x, y); an empty string draws nothing
draw(L0, kind, x, y, w, h) ==
    Only({[L EXCEPT !.draws = Append(@, [kind |-> kind, page |-> L.page, x |-> x, y |-> y,
                                       width |-> w, height |-> h])] : L \in {L0}})

drawLine(L, kind, words, x, y) == IF words > 0 THEN draw(L, kind, x, y, 0, 0) ELSE L

\* the paragraphs of a text, addText's sanitizedText.split('\n'), each as
\* its number of words; cur counts the words of the paragraph under way
RECURSIVE paragraphs(_, _, _)
paragraphs(text, i, cur) ==
    IF i > Len(text) THEN <<cur>>
    ELSE IF text[i] = "w" THEN paragraphs(text, i + 1, cur + 1)
    ELSE IF text[i] = "nl" THEN <<cur + 1>> \o paragraphs(text, i + 1, 1)
    ELSE <<cur + 1, 0>> \o paragraphs(text, i + 1, 1)

\* addText, the loop over the words of one paragraph: n words to go, line
\* holds the words of the line under construction
RECURSIVE addTextWords(_, _, _, _, _, _)
addTextWords(L0, n, line, size, kind, maxWidth) ==
    Only({IF n = 0
          THEN IF line > 0
               THEN down(drawLine(L, kind, line, Pt(margin), L.y), size * 12)
               ELSE L
          ELSE IF widthOfTextAtSize(line + 1, size) > maxWidth
               THEN addTextWords(checkPage(down(drawLine(L, kind, line, Pt(margin), L.y),
                                                size * 12)),
                                 n - 1, 1, size, kind, maxWidth)
               ELSE addTextWords(L, n - 1, line + 1, size, kind, maxWidth)
          : L \in {L0}})

\* addText, the loop over the paragraphs
RECURSIVE addTextParagraphs(_, _, _, _, _, _)
addTextParagraphs(L, paras, p, size, kind, maxWidth) ==
    IF p > Len(paras) THEN L
    ELSE IF paras[p] = 0
         THEN addTextParagraphs(down(L, size * 5), paras, p + 1, size, kind, maxWidth)
         ELSE LET L1 == addTextWords(L, paras[p], 0, size, kind, maxWidth)
                  L2 == IF p < Len(paras) THEN down(L1, size * 8) ELSE L1
              IN  addTextParagraphs(L2, paras, p + 1, size, kind, maxWidth)

\* addText(text, font, size, color) with indent 0 and maxWidth contentWidth
addTextAt(L, text, size, kind) ==
    IF text = <<>> THEN L
    ELSE checkPage(down(addTextParagraphs(L, paragraphs(text, 1, 0), 1, size, kind,
                                          Pt(contentWidth)),
                        size * 5))

\* The placement record addImage returns, null when nothing was placed.
NoPlacement == [placed |-> FALSE, width |-> 0, height |-> 0, x |-> 0, y |-> 0, bottom |-> 0]

\* addImage(imageBuffer, width, caption, isFlowchart) on an embeddable
\* buffer: dimensions, fit check, drawImage, caption, check after the image.
\* The placement is left in L.imageResult.
addImageAt(L, img, caption) ==
    LET isFlowchart == img.kind = "flowchart"
        dims == IF isFlowchart THEN flowchartDimensions(img.width, img.height)
                ELSE diagramDimensions(img.width, img.height)
        w == Tenths(dims.width)
        h == Tenths(dims.height)
        totalHeight == h + (IF caption THEN Pt(45) ELSE Pt(20))
        x == IF isFlowchart THEN Pt(margin) + (Pt(contentWidth) - w) \div 2 ELSE Pt(margin)
    IN  Only({LET imageY == L1.y
                    imageBottom == imageY - h
                    L2 == draw(L1, "image", x, imageBottom, w, h)
                    captionY == imageBottom - Pt(25)
                    L3 == IF caption
                          THEN down(draw(L2, "caption", x, captionY, w, 0),
                                    (imageY - captionY)
                                    + (IF isFlowchart THEN Pt(50) ELSE Pt(35)))
                          ELSE down(L2, (imageY - imageBottom) + Pt(25))
                IN  Only({[L4 EXCEPT !.imageResult =
                            [placed |-> TRUE, width |-> w, height |-> h, x |-> x,
                             y |-> imageY, bottom |-> L4.y]]
                          : L4 \in {checkPage(L3)}})
              : L1 \in {Only({IF La.y - totalHeight < Pt(margin) THEN addPage(La) ELSE La
                              : La \in {L}})}})

\* the parts of a word around its newlines: TRUE for a non-empty part
parts(word) == IF word = "nl" THEN <<TRUE, TRUE>> ELSE <<TRUE, FALSE, TRUE>>

\* What the side-by-side layout hands to drawText is kept in L.units, one
\* <<word, part>> per word drawn (part 0) or part of a word with newlines.
unitsOf(word, i) ==
    IF word = "w" THEN << <<i, 0>> >>
    ELSE SelectSeq([p \in 1..Len(parts(word)) |-> <<i, p>>],
                   LAMBDA u : parts(word)[u[2]])

\* the units of the n words from words[first] on
RECURSIVE unitsFrom(_, _, _)
unitsFrom(words, first, n) ==
    IF n = 0 THEN <<>>
    ELSE unitsOf(words[first], first) \o unitsFrom(words, first + 1, n - 1)

noteUnits(L, us) == [L EXCEPT !.units = @ \o us]

\* Side-by-side, first phase, the loop over the parts of a word with
\* newlines.  S is [L, i, textY, isTextLongerThanImage].
RECURSIVE besideParts(_, _, _, _, _)
besideParts(S, ps, partIndex, x, imageBottom) ==
    IF partIndex > Len(ps) THEN S
    ELSE Only({IF partIndex > 1 /\ S1.textY < imageBottom
               THEN [S1 EXCEPT !.isTextLongerThanImage = TRUE]
               ELSE IF ps[partIndex]
                    THEN Only({IF S2.textY < imageBottom
                               THEN [S2 EXCEPT !.isTextLongerThanImage = TRUE]
                               ELSE besideParts(S2, ps, partIndex + 1, x, imageBottom)
                               : S2 \in {[S1 EXCEPT
                                            !.L = noteUnits(
                                                    draw(@, "text", x, S1.textY, 0, 0),
                                                    << <<S1.i, partIndex>> >>),
                                            !.textY = @ - Pt(18)]}})
                    ELSE besideParts(S1, ps, partIndex + 1, x, imageBottom)
               : S1 \in {IF partIndex > 1 THEN [S EXCEPT !.textY = @ - Pt(18)] ELSE S}})

\* Side-by-side, "First phase: Render text beside the image until we reach
\* image bottom".  S is [L, i, line, from, textY, isTextLongerThanImage];
\* line holds the words from words[from] on.
RECURSIVE besideImage(_, _, _, _, _)
besideImage(S0, words, x, maxWidth, imageBottom) ==
    Only({IF S.i > Len(words) THEN S
          ELSE IF widthOfTextAtSize(S.line + 1, 12) > maxWidth \/ words[S.i] # "w"
               THEN Only({IF S1.textY < imageBottom
                          THEN [S1 EXCEPT !.isTextLongerThanImage = TRUE]
                          ELSE IF words[S.i] = "w"
                               THEN besideImage([S1 EXCEPT !.line = 1, !.from = S.i,
                                                            !.i = @ + 1],
                                                words, x, maxWidth, imageBottom)
                               ELSE Only({IF P.isTextLongerThanImage
                                          THEN [S1 EXCEPT !.L = P.L, !.textY = P.textY,
                                                          !.line = 1, !.from = S.i,
                                                          !.isTextLongerThanImage = TRUE]
                                          ELSE besideImage([S1 EXCEPT !.L = P.L,
                                                                      !.textY = P.textY,
                                                                      !.line = 0,
                                                                      !.i = @ + 1],
                                                           words, x, maxWidth, imageBottom)
                                          : P \in {besideParts(
                                                     [L |-> S1.L, i |-> S.i,
                                                      textY |-> S1.textY,
                                                      isTextLongerThanImage |-> FALSE],
                                                     parts(words[S.i]), 1, x, imageBottom)}})
                          : S1 \in {[S EXCEPT
                                       !.L = noteUnits(
                                               drawLine(@, "text", S.line, x, S.textY),
                                               unitsFrom(words, S.from, S.line)),
                                       !.textY = @ - Pt(18)]}})
               ELSE besideImage([S EXCEPT !.line = @ + 1, !.i = @ + 1,
                                          !.from = IF S.line = 0 THEN S.i ELSE @],
                                words, x, maxWidth, imageBottom)
          : S \in {S0}})

\* Side-by-side, "Continue with the remaining words, now at full width".
\* Measuring a word that holds a newline throws ("WinAnsi cannot encode
\* "\n" (0x000a)"): the measurement of this loop is outside every try.
RECURSIVE belowImage(_, _, _, _)
belowImage(L0, words, i, line) ==
    Only({IF i > Len(words)
          THEN IF line > 0
               THEN down(noteUnits(drawLine(L, "text", line, Pt(margin), L.y),
                                   unitsFrom(words, i - line, line)),
                         Pt(18))
               ELSE L
          ELSE IF words[i] # "w"
               THEN [L EXCEPT !.thrown = TRUE]
               ELSE IF widthOfTextAtSize(line + 1, 12) > Pt(contentWidth)
                    THEN belowImage(checkPage(down(noteUnits(
                                                     drawLine(L, "text", line, Pt(margin),
                                                              L.y),
                                                     unitsFrom(words, i - line, line)),
                                                   Pt(18))),
                                    words, i + 1, 1)
                    ELSE belowImage(L, words, i + 1, line + 1)
          : L \in {L0}})

\* "Calculate text width for side-by-side portion (right side of page)"
textWidth(imageResult) == Pt(contentWidth) - imageResult.width - Pt(30)

\* Variant of textX that starts the column at the image's left edge.
textXAtImage(imageResult) == imageResult.x

textX(imageResult) == imageResult.x + imageResult.width + Pt(30)

\* Variant of fullWidthY that starts the full-width text above the caption.
fullWidthYAboveCaption(imageBottom) == imageBottom + Pt(40)

\* "Add some space after image before continuing with full-width text"
fullWidthY(imageBottom) == imageBottom - Pt(25)

\* the cursor is set to y (an assignment, not a decrement)
setY(L0, y) == Only({[L EXCEPT !.y = y, !.consumed = @ + (L.y - y)] : L \in {L0}})

\* "For regular diagrams: Side-by-side layout", section.text non-empty
sideBySide(L, section) ==
    LET remainingHeight == L.y - Pt(margin)
        L0 == IF remainingHeight < Pt(250) THEN addPage(L) ELSE L
    IN  Only({LET imageResult == L1.imageResult
            imageBottom == imageResult.bottom
        IN  Only({LET S1 == IF S.line > 0 /\ ~S.isTextLongerThanImage
                      THEN [S EXCEPT !.L = noteUnits(
                                             draw(@, "text", textX(imageResult), S.textY,
                                                  0, 0),
                                             unitsFrom(section.text, S.from, S.line)),
                                     !.textY = @ - Pt(18)]
                      ELSE S
            IN  IF S.isTextLongerThanImage
                THEN LET L2 == setY(S.L, fullWidthY(imageBottom))
                         L3 == IF S.line > 0
                               THEN down(noteUnits(
                                           draw(L2, "text", Pt(margin),
                                                fullWidthY(imageBottom), 0, 0),
                                           unitsFrom(section.text, S.from, S.line)),
                                         Pt(18))
                               ELSE L2
                     IN  belowImage(L3, section.text, S.i, 0)
                ELSE Only({setY(S2.L, IF S2.textY < imageBottom THEN S2.textY
                                      ELSE imageBottom)
                           : S2 \in {S1}})
                  : S \in {besideImage([L |-> L1, i |-> 1, line |-> 0, from |-> 1,
                                        textY |-> imageResult.y,
                                        isTextLongerThanImage |-> FALSE],
                                       section.text, textX(imageResult),
                                       textWidth(imageResult), imageBottom)}})
              : L1 \in {addImageAt(L0, section.image, section.caption)}})

\* "Add section heading"
afterHeading(L, section) ==
    IF section.heading
    THEN down(addTextAt(L, <<"w">>, 18, "heading"), Pt(10))
    ELSE L

\* one iteration of "for (const section of content.sections)" on the
\* cursor; draws and units hold the placements of this section only
layoutSection(Lin, section) ==
    Only({LET L0 == [L EXCEPT !.draws = <<>>, !.units = <<>>, !.imageResult = NoPlacement]
        L1 == afterHeading(L0, section)
        isFlowchart == section.image.kind = "flowchart"
        L2 == IF section.image.kind # "none"
              THEN IF isFlowchart
                   THEN LET La == IF section.text # <<>>
                                  THEN down(addTextAt(L1, section.text, 12, "text"), Pt(20))
                                  ELSE L1
                        IN  down(addImageAt(La, section.image, section.caption), Pt(15))
                   ELSE IF section.text # <<>>
                        THEN sideBySide(L1, section)
                        ELSE addImageAt(L1, section.image, section.caption)
              ELSE addTextAt(L1, section.text, 12, "text")
    IN  Only({IF Lend.thrown THEN Lend
              ELSE checkPage(down(Lend, IF isFlowchart THEN Pt(45) ELSE Pt(35)))
              : Lend \in {L2}})
          : L \in {Lin}})

Words(n) == [j \in 1..n |-> "w"]

NoLayoutImage == [kind |-> "none", width |-> 0, height |-> 0]
SquareDiagram == [kind |-> "diagram", width |-> 512, height |-> 512]
WideDiagram == [kind |-> "diagram", width |-> 512, height |-> 256]
TallFlowchart == [kind |-> "flowchart", width |-> 1024, height |-> 1024]

\* the sections a content is made of: text-only, flowchart, diagram with a
\* short text, with a text longer than the image, with newlines, without
\* text, with a caption and a long text, with a newline where the text
\* reaches the bottom of the image
LayoutSectionPool ==
    {[heading |-> TRUE, text |-> Words(6), image |-> NoLayoutImage, caption |-> FALSE],
     [heading |-> TRUE, text |-> <<"w", "nl", "w", "nn", "w">>, image |-> NoLayoutImage,
      caption |-> FALSE],
     [heading |-> TRUE, text |-> Words(6), image |-> TallFlowchart, caption |-> TRUE],
     [heading |-> TRUE, text |-> Words(4), image |-> SquareDiagram, caption |-> TRUE],
     [heading |-> TRUE, text |-> Words(MaxWords), image |-> WideDiagram, caption |-> FALSE],
     [heading |-> TRUE, text |-> <<"w", "w", "nl", "w">>, image |-> SquareDiagram,
      caption |-> TRUE],
     [heading |-> FALSE, text |-> Words(MaxWords) \o <<"nl", "w">>, image |-> WideDiagram,
      caption |-> FALSE],
     [heading |-> TRUE, text |-> <<>>, image |-> SquareDiagram, caption |-> TRUE],
     [heading |-> FALSE, text |-> Words(MaxWords), image |-> WideDiagram, caption |-> TRUE],
     [heading |-> FALSE, text |-> Words(MaxWords - 8) \o <<"nl", "w">>,
      image |-> WideDiagram, caption |-> FALSE]}

NoLayoutSection == [heading |-> FALSE, text |-> <<>>, image |-> NoLayoutImage, caption |-> FALSE]

InitLayout ==
    /\ noteData = [given |-> FALSE, summary |-> "", concepts_diagram |-> <<>>]
    /\ diagrams = <<>>
    /\ flowcharts = <<>>
    /\ docStructure = NullDocStructure
    /\ faultsOn = FALSE
    /\ pc = "pdf"
    /\ stage = "primary"
    /\ secIdx = 0
    /\ usedVisuals = {}
    /\ content = NoContent
    /\ renderIdx = 0
    /\ drawn = <<>>
    /\ error = NoError
    /\ pending = NoError
    /\ failed = <<>>
    /\ faults = 0
    /\ result = "none"
    /\ image = NoImage
    /\ dimensions = NoDimensions
    /\ batch = NoBatch
    /\ glyph = NoGlyph
    /\ \E title \in BOOLEAN :
          layout = [pc |-> "start", title |-> title, y |-> Pt(pageHeight - margin),
                    page |-> 1, draws |-> <<>>, units |-> <<>>, consumed |-> 0,
                    thrown |-> FALSE,
                    imageResult |-> NoPlacement, count |-> 0, section |-> NoLayoutSection]

call == <<pc, stage, secIdx, usedVisuals, content, renderIdx, drawn, error, pending, failed,
          faults, result>>

\* "Start with a title"
LayoutTitle ==
    /\ layout.pc = "start"
    /\ layout' = [(IF layout.title
                   THEN down(addTextAt(layout, <<"w">>, 24, "title"), Pt(30))
                   ELSE layout)
                  EXCEPT !.pc = "sections"]
    /\ UNCHANGED <<inputs, sizing, call, batch, glyph>>

\* one section of the content is laid out
LayoutSection ==
    /\ layout.pc = "sections"
    /\ layout.count < MaxLayoutSections
    /\ \E section \in LayoutSectionPool :
          LET L == layoutSection(layout, section)
          IN  layout' = [L EXCEPT !.pc = IF L.thrown THEN "thrown" ELSE "sections",
                                  !.count = @ + 1,
                                  !.section = section]
    /\ UNCHANGED <<inputs, sizing, call, batch, glyph>>

\* the content has no further section: pdfDoc.save()
LayoutSave ==
    /\ layout.pc = "sections"
    /\ layout' = [layout EXCEPT !.pc = "saved"]
    /\ UNCHANGED <<inputs, sizing, call, batch, glyph>>

NextLayout ==
    \/ LayoutTitle
    \/ LayoutSection
    \/ LayoutSave

SpecLayout == InitLayout /\ [][NextLayout]_vars

-----------------------------------------------------------------------------
(* visualUtils.js: generateAllDiagrams, generateAllFlowcharts and the      *)
(* route /generate-visuals that runs the two batches in parallel.          *)
(* A prompt is "text" (a string) or "null"; a buffer is "png" (the image   *)
(* asked for), "placeholder" (a canvas drawing made instead) or "null".    *)

\* createPlaceholderImage: the canvas drawing, the 800x800 drawing when
\* that throws, null when the canvas throws again
createPlaceholderImage(canvas) == IF canvas THEN "placeholder" ELSE "null"

\* generateDiagram when fetch has ended: the response body, or the
\* placeholder for a network error and for every response that is not ok
generateDiagram(outcome, canvas) ==
    IF outcome = "ok" THEN "png" ELSE createPlaceholderImage(canvas)

\* generateFallbackFlowchart: a canvas drawing; it throws when the canvas
\* fails in its catch block too
generateFallbackFlowchart(canvas) ==
    IF canvas THEN [thrown |-> FALSE, buffer |-> "placeholder"]
    ELSE [thrown |-> TRUE, buffer |-> "null"]

\* generateFlowchart when the rasterizer has ended, or without a rasterizer
\* ("unavailable")
generateFlowchart(outcome, canvas) ==
    IF outcome = "ok" THEN [thrown |-> FALSE, buffer |-> "png"]
    ELSE generateFallbackFlowchart(canvas)

\* one iteration of generateAllDiagrams whose prompt is no string: the
\* substring call throws, the catch pushes a placeholder and the message
diagramCaught(i, canvas) ==
    [index |-> i - 1, name |-> "", buffer |-> createPlaceholderImage(canvas),
     error |-> "TypeError"]

\* Variant of diagramResult that numbers the results from 1.
diagramResultOneBased(i, buffer) ==
    IF buffer = "null"
    THEN [index |-> i, name |-> "", buffer |-> "null",
          error |-> "Failed to generate even a placeholder image"]
    ELSE [index |-> i, name |-> "", buffer |-> buffer, error |-> "null"]

\* one iteration of generateAllDiagrams after generateDiagram returned buffer
diagramResult(i, buffer) ==
    IF buffer = "null"
    THEN [index |-> i - 1, name |-> "", buffer |-> "null",
          error |-> "Failed to generate even a placeholder image"]
    ELSE [index |-> i - 1, name |-> "", buffer |-> buffer, error |-> "null"]

\* conceptNames[i] || `Flowchart ${i+1}`
conceptName(i) ==
    IF i <= Len(batch.flowchartConcepts) /\ batch.flowchartConcepts[i] # ""
    THEN batch.flowchartConcepts[i]
    ELSE "Flowchart"

\* one iteration of generateAllFlowcharts after generateFlowchart ended
\* with r, or after the length of a code that is no string threw
flowchartResult(i, r) ==
    IF r.thrown
    THEN [index |-> i - 1, name |-> conceptName(i), buffer |-> "null", error |-> "Error"]
    ELSE IF r.buffer = "null"
         THEN [index |-> i - 1, name |-> conceptName(i), buffer |-> "null",
               error |-> "Failed to generate flowchart image"]
         ELSE [index |-> i - 1, name |-> conceptName(i), buffer |-> r.buffer,
               error |-> "null"]

PromptPool == {"text", "null"}
ConceptPool == {"name", ""}

\* a batch loop: position, index of the item under way, results pushed, and
\* the history of how the external call of each item ended
NoLoop == [pc |-> "idle", i |-> 1, results |-> <<>>, outcomes |-> <<>>]
NoResponse == [status |-> 0, diagrams |-> <<>>, flowcharts |-> <<>>]

InitBatch ==
    /\ noteData = [given |-> FALSE, summary |-> "", concepts_diagram |-> <<>>]
    /\ diagrams = <<>>
    /\ flowcharts = <<>>
    /\ docStructure = NullDocStructure
    /\ faultsOn = FALSE
    /\ pc = "start"
    /\ stage = "primary"
    /\ secIdx = 0
    /\ usedVisuals = {}
    /\ content = NoContent
    /\ renderIdx = 0
    /\ drawn = <<>>
    /\ error = NoError
    /\ pending = NoError
    /\ failed = <<>>
    /\ faults = 0
    /\ result = "none"
    /\ image = NoImage
    /\ dimensions = NoDimensions
    /\ layout = NoLayout
    /\ glyph = NoGlyph
    /\ \E dp \in SeqsUpTo(PromptPool, MaxPrompts), fp \in SeqsUpTo(PromptPool, MaxPrompts),
          fc \in SeqsUpTo(ConceptPool, MaxPrompts),
          moduleLoads \in BOOLEAN, canvas \in BOOLEAN, mermaidCliAvailable \in BOOLEAN :
          batch = [pc |-> "route", diagramPrompts |-> dp, flowchartPrompts |-> fp,
                   flowchartConcepts |-> fc, moduleLoads |-> moduleLoads,
                   canvas |-> canvas, mermaidCliAvailable |-> mermaidCliAvailable,
                   d |-> NoLoop, f |-> NoLoop, response |-> NoResponse]

\* the response of the route when require('../utils/visualUtils') throws
moduleErrorResponse ==
    [status |-> 200,
     diagrams |-> [j \in 1..Len(batch.diagramPrompts) |->
                      [index |-> j - 1, name |-> "", image |-> "null",
                       error |-> "Visualization module failed to load"]],
     flowcharts |-> [j \in 1..Len(batch.flowchartConcepts) |->
                      [index |-> j - 1, name |-> batch.flowchartConcepts[j],
                       image |-> "null",
                       error |-> "Visualization module failed to load"]]]

\* diagramResults.map / flowchartResults.map of the route
toResponse(results) ==
    [j \in 1..Len(results) |->
        [index |-> results[j].index, name |-> results[j].name,
         image |-> results[j].buffer, error |-> results[j].error]]

\* the loop record after the iteration under way pushed entry
pushed(loop, entry, outcome) ==
    [loop EXCEPT !.pc = "loop", !.i = @ + 1, !.results = Append(@, entry),
                 !.outcomes = Append(@, outcome)]

rest == <<inputs, sizing, call, layout, glyph>>

\* the route: 400 without prompts, the module-error response when the
\* module does not load, else both batches are started
RouteStart ==
    /\ batch.pc = "route"
    /\ batch' =
         IF batch.diagramPrompts = <<>> /\ batch.flowchartPrompts = <<>>
         THEN [batch EXCEPT !.pc = "responded", !.response = [NoResponse EXCEPT !.status = 400]]
         ELSE IF ~batch.moduleLoads
              THEN [batch EXCEPT !.pc = "responded", !.response = moduleErrorResponse]
              ELSE [batch EXCEPT !.pc = "running",
                                 !.d.pc = IF batch.diagramPrompts # <<>> THEN "loop"
                                          ELSE "returned",
                                 !.f.pc = IF batch.flowchartPrompts # <<>> THEN "loop"
                                          ELSE "returned"]
    /\ UNCHANGED rest

\* generateAllDiagrams, an iteration up to the fetch of generateDiagram
DiagramIteration ==
    /\ batch.d.pc = "loop"
    /\ batch.d.i <= Len(batch.diagramPrompts)
    /\ batch' = IF batch.diagramPrompts[batch.d.i] = "null"
                THEN [batch EXCEPT !.d = pushed(@, diagramCaught(batch.d.i, batch.canvas),
                                                "none")]
                ELSE [batch EXCEPT !.d.pc = "waiting"]
    /\ UNCHANGED rest

\* the fetch ends and the iteration pushes its result
DiagramCallEnds ==
    /\ batch.d.pc = "waiting"
    /\ \E outcome \in {"ok", "fail"} :
          batch' = [batch EXCEPT !.d = pushed(@, diagramResult(batch.d.i,
                                                     generateDiagram(outcome, batch.canvas)),
                                              outcome)]
    /\ UNCHANGED rest

\* the fetch never ends: no timeout, no abort signal
DiagramCallHangs ==
    /\ batch.d.pc = "waiting"
    /\ batch' = [batch EXCEPT !.d.pc = "hung"]
    /\ UNCHANGED rest

\* generateAllDiagrams returns results
DiagramsReturn ==
    /\ batch.d.pc = "loop"
    /\ batch.d.i > Len(batch.diagramPrompts)
    /\ batch' = [batch EXCEPT !.d.pc = "returned"]
    /\ UNCHANGED rest

\* generateAllFlowcharts, an iteration up to the rasterizer of
\* generateFlowchart; without a rasterizer the fallback is drawn at once
FlowchartIteration ==
    /\ batch.f.pc = "loop"
    /\ batch.f.i <= Len(batch.flowchartPrompts)
    /\ batch' =
         IF batch.flowchartPrompts[batch.f.i] = "null"
         THEN [batch EXCEPT !.f = pushed(@, flowchartResult(batch.f.i,
                                                [thrown |-> TRUE, buffer |-> "null"]),
                                         "none")]
         ELSE IF ~batch.mermaidCliAvailable
              THEN [batch EXCEPT !.f = pushed(@, flowchartResult(batch.f.i,
                                                     generateFlowchart("unavailable",
                                                                       batch.canvas)),
                                              "none")]
              ELSE [batch EXCEPT !.f.pc = "waiting"]
    /\ UNCHANGED rest

\* mmdc ends and the iteration pushes its result
FlowchartCallEnds ==
    /\ batch.f.pc = "waiting"
    /\ \E outcome \in {"ok", "fail"} :
          batch' = [batch EXCEPT !.f = pushed(@, flowchartResult(batch.f.i,
                                                     generateFlowchart(outcome, batch.canvas)),
                                              outcome)]
    /\ UNCHANGED rest

\* mmdc never ends: execAsync and mmdc.run have no timeout
FlowchartCallHangs ==
    /\ batch.f.pc = "waiting"
    /\ batch' = [batch EXCEPT !.f.pc = "hung"]
    /\ UNCHANGED rest

\* generateAllFlowcharts returns results
FlowchartsReturn ==
    /\ batch.f.pc = "loop"
    /\ batch.f.i > Len(batch.flowchartPrompts)
    /\ batch' = [batch EXCEPT !.f.pc = "returned"]
    /\ UNCHANGED rest

\* Promise.all has both lists: res.json(response)
RouteResponds ==
    /\ batch.pc = "running"
    /\ batch.d.pc = "returned"
    /\ batch.f.pc = "returned"
    /\ batch' = [batch EXCEPT !.pc = "responded",
                              !.response = [status |-> 200,
                                            diagrams |-> toResponse(batch.d.results),
                                            flowcharts |-> toResponse(batch.f.results)]]
    /\ UNCHANGED rest

NextBatch ==
    \/ RouteStart
    \/ DiagramIteration
    \/ DiagramCallEnds
    \/ DiagramCallHangs
    \/ DiagramsReturn
    \/ FlowchartIteration
    \/ FlowchartCallEnds
    \/ FlowchartCallHangs
    \/ FlowchartsReturn
    \/ RouteResponds

SpecBatch == InitBatch /\ [][NextBatch]_vars

\* The code takes every step it can take: the event loop runs each
\* continuation that is ready.  Whether a call ends is up to the network
\* and the rasterizer.
SpecBatchFair ==
    /\ SpecBatch
    /\ WF_vars(RouteStart)
    /\ WF_vars(DiagramIteration)
    /\ WF_vars(DiagramsReturn)
    /\ WF_vars(FlowchartIteration)
    /\ WF_vars(FlowchartsReturn)
    /\ WF_vars(RouteResponds)

-----------------------------------------------------------------------------
(* generatePDF: the strings handed to the font                             *)
(* A string is a sequence of characters, each given by its class: "a" a    *)
(* printable ASCII character other than the space, "sp" the space, "nl"    *)
(* the newline, "ctl" an ASCII control character such as "\x07", "lat" a   *)
(* non-ASCII character of WinAnsi such as e-acute, "cjk" a character       *)
(* outside WinAnsi.  Every glyph is GlyphWidth wide at size 12, the right  *)
(* column holds ColumnChars glyphs and the content width PageChars.        *)

NonAscii == {"lat", "cjk"}

Whitespace == {"sp", "nl"}

\* what the standard fonts can encode
WinAnsi == {"a", "sp", "lat"}

\* s.replace(/[...]/g, to) for a class of characters
replaceAll(s, class, to) == [j \in 1..Len(s) |-> IF s[j] \in class THEN to ELSE s[j]]

\* safeText.replace(/([^\r])\n/g, '$1 \n'): a match takes a character and
\* the newline after it, the next match starts behind the newline
RECURSIVE spaceBeforeNewline(_, _)
spaceBeforeNewline(s, j) ==
    IF j > Len(s) THEN <<>>
    ELSE IF j < Len(s) /\ s[j + 1] = "nl"
         THEN <<s[j], "sp", "nl">> \o spaceBeforeNewline(s, j + 2)
         ELSE <<s[j]>> \o spaceBeforeNewline(s, j + 1)

\* s.replace(/[\u0080-\uFFFF]/g, ' ')
nonAsciiToSpace(s) == replaceAll(s, NonAscii, "sp")

\* s.replace(/[\r\n\u0080-\uFFFF]/g, ' ')
sanitizedForMeasure(s) == replaceAll(s, NonAscii \cup {"nl"}, "sp")

\* s.replace(/[^\x20-\x7E]/g, '')
safeLine(s) == SelectSeq(s, LAMBDA c : c \in {"a", "sp"})

\* s.split(sep), from character j on, cur being the piece under way
RECURSIVE split(_, _, _, _)
split(s, sep, j, cur) ==
    IF j > Len(s) THEN <<cur>>
    ELSE IF s[j] = sep THEN <<cur>> \o split(s, sep, j + 1, <<>>)
    ELSE split(s, sep, j + 1, Append(cur, s[j]))

\* s.trim().length > 0
trimmed(s) == \E j \in 1..Len(s) : s[j] \notin Whitespace

\* s.includes('\n')
includesNewline(s) == \E j \in 1..Len(s) : s[j] = "nl"

\* s.endsWith('\n')
endsWithNewline(s) == Len(s) > 0 /\ s[Len(s)] = "nl"

\* font.widthOfTextAtSize(s, 12) encodes s and throws on a character the
\* font cannot encode, the newline included
encodes(s) == \A j \in 1..Len(s) : s[j] \in WinAnsi

glyphWidthOf(s) == Len(s) * GlyphWidth

\* "lineWidth = font.widthOfTextAtSize(...)" inside try, with the
\* character-based approximation of the catch
lineWidthOr(s, perChar) == IF encodes(s) THEN glyphWidthOf(s) ELSE Len(s) * perChar

\* page.drawText(s) splits s at its newlines and encodes each line
drawable(s) == \A j \in 1..Len(s) : s[j] \in WinAnsi \cup {"nl"}

\* the width-measurement primitive is handed s
measure(G, s) == [G EXCEPT !.measured = Append(@, s)]

\* one call of currentPage.drawText: it throws when a character cannot be
\* encoded or when this call is one of the faulty ones
attempt(G, site, s, retry) ==
    [G EXCEPT !.calls = @ + 1,
              !.out = Append(@, [site |-> site, text |-> s, retry |-> retry,
                                 ok |-> drawable(s) /\ (G.calls + 1) \notin G.faulty])]

\* whether the last drawText call threw
threw(G) == ~G.out[Len(G.out)].ok

\* drawText without try
drawOnce(G, site, s) == attempt(G, site, s, FALSE)

\* try { drawText(line) } catch (drawError) { drawText(safeLine) }
drawRetrying(G, site, s) ==
    Only({IF threw(G1) THEN attempt(G1, site, safeLine(s), TRUE) ELSE G1
          : G1 \in {attempt(G, site, s, FALSE)}})

\* an exception leaves generatePDF through its catch, which rethrows
thrownOut(G) == [G EXCEPT !.pc = "thrown"]

glyphContentWidth == PageChars * GlyphWidth

glyphTextWidth == ColumnChars * GlyphWidth

\* the words a body text is made of: plain, with a newline, with a
\* non-ASCII character inside and outside WinAnsi, with a control character
GlyphWords == {<<"a", "a">>, <<"a", "nl", "a">>, <<"lat", "a">>, <<"cjk", "a">>, <<"ctl", "a">>}

\* words.join(' ')
RECURSIVE join(_)
join(ws) == IF Len(ws) = 1 THEN ws[1] ELSE ws[1] \o <<"sp">> \o join(Tail(ws))

GlyphTexts == {join(ws) : ws \in SeqsUpTo(GlyphWords, MaxTextWords) \ {<<>>}}

GlyphCaptions == {<<>>, <<"a">>, <<"cjk">>}

\* 'Figure: ' + caption
Figure(caption) == <<"a", "sp">> \o caption

\* the section: a text-only section (addText) or a diagram section with
\* body text (side by side), room being the number of lines that fit
\* beside the image below the first one
GlyphSections ==
    {[path |-> "addText", caption |-> <<>>, room |-> 0]}
    \cup {[path |-> "sideBySide", caption |-> <<>>, room |-> r] : r \in 0..MaxRoom}
    \cup {[path |-> "sideBySide", caption |-> c, room |-> MaxRoom] : c \in GlyphCaptions}

InitGlyph ==
    /\ noteData = [given |-> FALSE, summary |-> "", concepts_diagram |-> <<>>]
    /\ diagrams = <<>>
    /\ flowcharts = <<>>
    /\ docStructure = NullDocStructure
    /\ faultsOn = TRUE
    /\ pc = "pdf"
    /\ stage = "primary"
    /\ secIdx = 0
    /\ usedVisuals = {}
    /\ content = NoContent
    /\ renderIdx = 0
    /\ drawn = <<>>
    /\ error = NoError
    /\ pending = NoError
    /\ failed = <<>>
    /\ faults = 0
    /\ result = "none"
    /\ image = NoImage
    /\ dimensions = NoDimensions
    /\ layout = NoLayout
    /\ batch = NoBatch
    /\ \E text \in GlyphTexts, section \in GlyphSections,
          faulty \in SUBSET (1..MaxDrawFaults) :
          glyph = [pc |-> "section", path |-> section.path, text |-> text,
                   caption |-> section.caption, room |-> section.room, faulty |-> faulty,
                   calls |-> 0, measured |-> <<>>, out |-> <<>>, imageResult |-> FALSE,
                   paragraphs |-> <<>>, p |-> 1, words |-> <<>>, i |-> 1, line |-> <<>>,
                   isTextLongerThanImage |-> FALSE]

allButGlyph == <<inputs, sizing, call, layout, batch>>

\* addText: "Sanitize text", "pre-split by newlines before word processing"
AddTextSanitize ==
    /\ glyph.pc = "section"
    /\ glyph.path = "addText"
    /\ LET sanitizedText == nonAsciiToSpace(spaceBeforeNewline(glyph.text, 1))
       IN  glyph' = [glyph EXCEPT !.pc = "paragraph",
                                  !.paragraphs = split(sanitizedText, "nl", 1, <<>>),
                                  !.p = 1]
    /\ UNCHANGED allButGlyph

\* addText: the head of "for (let p = 0; p < paragraphs.length; p++)"
AddTextParagraph ==
    /\ glyph.pc = "paragraph"
    /\ glyph' = IF glyph.p > Len(glyph.paragraphs)
                THEN [glyph EXCEPT !.pc = "done"]
                ELSE IF ~trimmed(glyph.paragraphs[glyph.p])
                     THEN [glyph EXCEPT !.p = @ + 1]
                     ELSE [glyph EXCEPT !.pc = "word",
                                        !.words = split(glyph.paragraphs[glyph.p], "sp",
                                                        1, <<>>),
                                        !.line = <<>>,
                                        !.i = 1]
    /\ UNCHANGED allButGlyph

\* addText: one iteration of "for (let i = 0; i < words.length; i++)"
AddTextWord ==
    /\ glyph.pc = "word"
    /\ glyph.i <= Len(glyph.words)
    /\ LET word == glyph.words[glyph.i]
           testLine == glyph.line \o word \o <<"sp">>
           sanitizedTestLine == sanitizedForMeasure(testLine)
           lineWidth == lineWidthOr(sanitizedTestLine, 72)
       IN  glyph' =
             IF ~trimmed(word)
             THEN [glyph EXCEPT !.i = @ + 1]
             ELSE IF lineWidth > glyphContentWidth
                  THEN Only({IF threw(G)
                             THEN [G EXCEPT !.i = @ + 1]
                             ELSE [G EXCEPT !.line = word \o <<"sp">>, !.i = @ + 1]
                             : G \in {drawRetrying(measure(glyph, sanitizedTestLine),
                                                   "wrapped", glyph.line)}})
                  ELSE [measure(glyph, sanitizedTestLine)
                        EXCEPT !.line = testLine, !.i = @ + 1]
    /\ UNCHANGED allButGlyph

\* addText: "Draw any remaining text in the last line"; the retry of this
\* draw is inside no try
AddTextFinalLine ==
    /\ glyph.pc = "word"
    /\ glyph.i > Len(glyph.words)
    /\ glyph' =
         IF trimmed(glyph.line)
         THEN Only({IF threw(G) THEN thrownOut(G)
                    ELSE [G EXCEPT !.pc = "paragraph", !.p = @ + 1]
                    : G \in {drawRetrying(glyph, "final", glyph.line)}})
         ELSE [glyph EXCEPT !.pc = "paragraph", !.p = @ + 1]
    /\ UNCHANGED allButGlyph

\* addImage inside the side-by-side layout: the caption is drawn inside
\* addImage's try, whose catch returns null; without an imageResult the
\* body text is not laid out
AddImageCaption ==
    /\ glyph.pc = "section"
    /\ glyph.path = "sideBySide"
    /\ LET beside(G) == [G EXCEPT !.pc = "beside",
                                  !.imageResult = TRUE,
                                  !.words = split(glyph.text, "sp", 1, <<>>),
                                  !.line = <<>>,
                                  !.i = 1]
       IN  glyph' =
             IF glyph.caption = <<>>
             THEN beside(glyph)
             ELSE Only({IF threw(G) THEN [G EXCEPT !.pc = "done"] ELSE beside(G)
                        : G \in {drawOnce(glyph, "caption", Figure(glyph.caption))}})
    /\ UNCHANGED allButGlyph

\* "textY -= 18" and the test "textY < imageBottom" that follows it
lineDown(G) ==
    Only({[G1 EXCEPT !.isTextLongerThanImage = G1.room < 0]
          : G1 \in {[G EXCEPT !.room = @ - 1]}})

\* first phase, "Handle explicit newlines": the loop over the parts
RECURSIVE besidePartsOf(_, _, _)
besidePartsOf(G, ps, partIndex) ==
    IF partIndex > Len(ps) THEN G
    ELSE Only({IF G1.isTextLongerThanImage THEN G1
               ELSE IF ps[partIndex] # <<>>
                    THEN Only({IF threw(G2) THEN thrownOut(G2)
                               ELSE Only({IF G3.isTextLongerThanImage THEN G3
                                          ELSE besidePartsOf(G3, ps, partIndex + 1)
                                          : G3 \in {lineDown(G2)}})
                               : G2 \in {drawOnce(G1, "column", ps[partIndex])}})
                    ELSE besidePartsOf(G1, ps, partIndex + 1)
               : G1 \in {IF partIndex > 1 THEN lineDown(G) ELSE G}})

\* "First phase: Render text beside the image until we reach image
\* bottom", one iteration of the while loop
BesideWord ==
    /\ glyph.pc = "beside"
    /\ glyph.i <= Len(glyph.words)
    /\ LET word == glyph.words[glyph.i]
           safeWord == sanitizedForMeasure(word)
           testLine == sanitizedForMeasure(glyph.line \o safeWord \o <<"sp">>)
           lineWidth == lineWidthOr(testLine, Pt(7))
       IN  glyph' =
             IF lineWidth > glyphTextWidth \/ includesNewline(word)
             THEN Only({IF threw(G) THEN thrownOut(G)
                        ELSE Only({IF G1.isTextLongerThanImage
                                   THEN [G1 EXCEPT !.pc = "switch"]
                                   ELSE IF includesNewline(word)
                                        THEN Only({IF G2.pc = "thrown" THEN G2
                                                   ELSE IF G2.isTextLongerThanImage
                                                        THEN [G2 EXCEPT !.pc = "switch"]
                                                        ELSE [G2 EXCEPT !.line = <<>>,
                                                                        !.i = @ + 1]
                                                   : G2 \in {besidePartsOf(
                                                               [G1 EXCEPT !.line =
                                                                  IF endsWithNewline(word)
                                                                  THEN <<>>
                                                                  ELSE word \o <<"sp">>],
                                                               split(word, "nl", 1, <<>>),
                                                               1)}})
                                        ELSE [G1 EXCEPT !.line = word \o <<"sp">>,
                                                        !.i = @ + 1]
                                   : G1 \in {lineDown(G)}})
                        : G \in {drawOnce(measure(glyph, testLine), "column", glyph.line)}})
             ELSE [measure(glyph, testLine) EXCEPT !.line = testLine, !.i = @ + 1]
    /\ UNCHANGED allButGlyph

\* "Draw any remaining text from the first phase"
BesideRemaining ==
    /\ glyph.pc = "beside"
    /\ glyph.i > Len(glyph.words)
    /\ glyph' =
         IF trimmed(glyph.line)
         THEN Only({IF threw(G) THEN thrownOut(G) ELSE [G EXCEPT !.pc = "done"]
                    : G \in {drawOnce(glyph, "column", glyph.line)}})
         ELSE [glyph EXCEPT !.pc = "done"]
    /\ UNCHANGED allButGlyph

\* "Second phase": "Draw any remaining text from the previous phase first"
SwitchToFullWidth ==
    /\ glyph.pc = "switch"
    /\ glyph' =
         IF trimmed(glyph.line)
         THEN Only({IF threw(G) THEN thrownOut(G)
                    ELSE [G EXCEPT !.pc = "below", !.line = <<>>]
                    : G \in {drawOnce(glyph, "overflowFirst", glyph.line)}})
         ELSE [glyph EXCEPT !.pc = "below", !.line = <<>>]
    /\ UNCHANGED allButGlyph

\* "Continue with the remaining words, now at full width", one iteration.
\* The measurement is inside no try; a word with a newline makes it throw,
\* so that the branch "Handle explicit newlines" of this loop is never
\* entered.
BelowWord ==
    /\ glyph.pc = "below"
    /\ glyph.i <= Len(glyph.words)
    /\ LET word == glyph.words[glyph.i]
           testLine == glyph.line \o word \o <<"sp">>
       IN  glyph' =
             IF ~encodes(testLine)
             THEN thrownOut(measure(glyph, testLine))
             ELSE IF glyphWidthOf(testLine) > glyphContentWidth
                  THEN Only({IF threw(G) THEN thrownOut(G)
                             ELSE [G EXCEPT !.line = word \o <<"sp">>, !.i = @ + 1]
                             : G \in {drawRetrying(measure(glyph, testLine), "overflow",
                                                   glyph.line)}})
                  ELSE [measure(glyph, testLine) EXCEPT !.line = testLine, !.i = @ + 1]
    /\ UNCHANGED allButGlyph

\* second phase, "Draw any remaining text in the last line"
BelowLastLine ==
    /\ glyph.pc = "below"
    /\ glyph.i > Len(glyph.words)
    /\ glyph' =
         IF trimmed(glyph.line)
         THEN Only({IF threw(G) THEN thrownOut(G) ELSE [G EXCEPT !.pc = "done"]
                    : G \in {drawRetrying(glyph, "overflowLast", glyph.line)}})
         ELSE [glyph EXCEPT !.pc = "done"]
    /\ UNCHANGED allButGlyph

NextGlyph ==
    \/ AddTextSanitize
    \/ AddTextParagraph
    \/ AddTextWord
    \/ AddTextFinalLine
    \/ AddImageCaption
    \/ BesideWord
    \/ BesideRemaining
    \/ SwitchToFullWidth
    \/ BelowWord
    \/ BelowLastLine

SpecGlyph == InitGlyph /\ [][NextGlyph]_vars

-----------------------------------------------------------------------------
(* Properties of the assembly, checked under Spec, and of the returned     *)
(* document (C2, C8), checked under SpecFaulty                             *)

Visuals ==
    {<<"diagram", i>> : i \in 1..Len(diagrams)} \cup {<<"flow", i>> : i \in 1..Len(flowcharts)}

BufferedVisuals == {v \in Visuals : hasBuffer(bufferOf(v))}

\* the sections of content that show visual v
SectionsOf(v) == {j \in 1..Len(content.sections) : content.sections[j].src = v}

\* the image draws of the document that show visual v
ImagesOf(v) ==
    {j \in 1..Len(drawn) : drawn[j].op = "image" /\ content.sections[drawn[j].sec].src = v}

PlanSections == docStructure.sections

\* the plan-driven content is under construction or complete
InPlan == stage = "primary" /\ planUsable /\ pc # "start"

\* the plan-driven content is complete (trailing pass included)
PlanBuilt == InPlan /\ pc \in {"pdf", "sections", "done"}

PositionalBuilt == stage = "primary" /\ ~planUsable /\ pc \in {"pdf", "sections", "done"}

Returned == pc = "done" /\ result = "buffer"

\* the visuals held by the sections before section j
UsedBefore(j) == {content.sections[k].src : k \in 1..(j - 1)} \ {NoVisual}

Least(S) == CHOOSE x \in S : \A y \in S : x <= y

\* C2: when all N diagram and M flowchart results carry an embeddable
\* buffer, the returned document holds exactly N+M image placements, each
\* result placed exactly once, with or without a section plan.
C2_VisualConservation ==
    (Returned /\ stage = "primary" /\ faults = 0 /\ \A v \in Visuals : bufferOf(v) = "png")
    => /\ Cardinality({j \in 1..Len(drawn) : drawn[j].op = "image"})
            = Len(diagrams) + Len(flowcharts)
       /\ \A v \in Visuals : Cardinality(ImagesOf(v)) = 1

\* C3: in plan-driven assembly, after any prefix of the planned sections
\* and after the trailing pass, no diagram or flowchart result supplies the
\* image of more than one section, and a visual is in usedVisuals exactly
\* when a section holds it.
C3_NoVisualTwice ==
    InPlan =>
        /\ \A v \in Visuals : Cardinality(SectionsOf(v)) <= 1
        /\ usedVisuals = {v \in Visuals : SectionsOf(v) # {}}

\* two planned sections compete for the same single flowchart: the first
\* holds it, the second is left without a visual
C3_Witness ==
    /\ PlanBuilt
    /\ Len(PlanSections) = 2
    /\ PlanSections[1].includeImage /\ PlanSections[2].includeImage
    /\ PlanSections[1].heading = PlanSections[2].heading
    /\ content.sections[1].src = <<"flow", 1>>
    /\ content.sections[2].src = NoVisual
    /\ BufferedVisuals = {<<"flow", 1>>}

\* C4: in plan-driven assembly every flowchart result with a buffer is in
\* exactly one section of the final list; those not assigned to a planned
\* section are the trailing sections, in flowchart index order, each a
\* flowchart-layout section after all planned sections.
C4_TrailingFlowcharts ==
    PlanBuilt =>
        LET n == Len(PlanSections)
            planned == {content.sections[j].src : j \in 1..n}
            left == {i \in 1..Len(flowcharts) :
                       hasBuffer(flowcharts[i].buffer) /\ <<"flow", i>> \notin planned}
        IN  /\ \A i \in 1..Len(flowcharts) :
                   hasBuffer(flowcharts[i].buffer)
                   => Cardinality(SectionsOf(<<"flow", i>>)) = 1
            /\ Len(content.sections) = n + Cardinality(left)
            /\ \A j \in (n + 1)..Len(content.sections) :
                   /\ content.sections[j].src[1] = "flow"
                   /\ content.sections[j].src[2] \in left
                   /\ content.sections[j].isFlowchart
                   /\ content.sections[j].layout = "text-with-image"
                   /\ content.sections[j].imageBuffer = flowcharts[content.sections[j].src[2]].buffer
            /\ \A j, k \in (n + 1)..Len(content.sections) :
                   j < k => content.sections[j].src[2] < content.sections[k].src[2]

\* two flowcharts are left over by the plan and appended in index order
C4_Witness ==
    /\ PlanBuilt
    /\ Len(PlanSections) >= 1
    /\ Len(content.sections) = Len(PlanSections) + 2
    /\ content.sections[Len(PlanSections) + 1].src = <<"flow", 1>>
    /\ content.sections[Len(PlanSections) + 2].src = <<"flow", 2>>

\* the five strategies as the claim names them, for planned section sec and
\* flowchart i
Precision(k, sec, i) ==
    LET heading == toLowerCase(sec.heading)
        caption == toLowerCase(sec.imageCaption)
        name == toLowerCase(flowcharts[i].name)
    IN  CASE k = 1 -> heading = name
          [] k = 2 -> Len(name) > 3 /\ includes(heading, name)
          [] k = 3 -> Len(heading) > 3 /\ includes(name, heading)
          [] k = 4 -> Len(name) > 3 /\ includes(caption, name)
          [] k = 5 -> \E w \in {keywords[x] : x \in 1..Len(keywords)} :
                         includes(heading, w) /\ includes(name, w)

\* the unused buffered flowcharts that strategy k accepts for planned section j
Candidates(k, j) ==
    {i \in 1..Len(flowcharts) :
        /\ hasBuffer(flowcharts[i].buffer)
        /\ <<"flow", i>> \notin UsedBefore(j)
        /\ Precision(k, PlanSections[j], i)}

MatchingStrategies(j) == {k \in 1..5 : Candidates(k, j) # {}}

ProcessedPlanSections ==
    {j \in 1..Len(PlanSections) : j <= Len(content.sections)}

DiagramCandidates(j) ==
    {d \in 1..Len(diagrams) :
        /\ hasBuffer(diagrams[d].buffer)
        /\ <<"diagram", d>> \notin UsedBefore(j)
        /\ diagramNameMatches(PlanSections[j], d)}

\* C6: a processed section flagged includeImage is without an image only
\* if every buffered diagram and flowchart was used by an earlier section;
\* when no name matches and unused visuals remain, an unused flowchart is
\* taken in preference to an unused diagram.
C6_FallbackAssignment ==
    InPlan =>
        \A j \in ProcessedPlanSections :
            PlanSections[j].includeImage =>
                LET sec == content.sections[j]
                    unused == BufferedVisuals \ UsedBefore(j)
                IN  /\ sec.src = NoVisual => unused = {}
                    /\ sec.src # NoVisual => sec.src \in unused /\ sec.imageBuffer = bufferOf(sec.src)
                    /\ (MatchingStrategies(j) = {} /\ DiagramCandidates(j) = {} /\ unused # {})
                       => IF \E v \in unused : v[1] = "flow"
                          THEN sec.src[1] = "flow" /\ sec.isFlowchart
                          ELSE sec.src[1] = "diagram" /\ ~sec.isFlowchart

\* no name matches, a flowchart and a diagram are both unused: the
\* flowchart is taken; the next section gets the diagram
C6_Witness ==
    /\ InPlan
    /\ 2 \in ProcessedPlanSections
    /\ PlanSections[1].includeImage /\ PlanSections[2].includeImage
    /\ MatchingStrategies(1) = {} /\ DiagramCandidates(1) = {}
    /\ BufferedVisuals = {<<"flow", 1>>, <<"diagram", 1>>}
    /\ content.sections[1].src = <<"flow", 1>>
    /\ content.sections[2].src = <<"diagram", 1>>

\* C7: without a usable plan the section list is Summary, then one diagram
\* section per diagram result in input order, headed and captioned by the
\* concept at the same position, then one flowchart section per flowchart
\* result in input order.
C7_PositionalOrder ==
    PositionalBuilt =>
        LET nd == Len(diagrams)
            nf == Len(flowcharts)
        IN  /\ Len(content.sections) = 1 + nd + nf
            /\ content.sections[1].heading = sSummary
            /\ \A i \in 1..nd :
                   /\ content.sections[1 + i].src = <<"diagram", i>>
                   /\ ~content.sections[1 + i].isFlowchart
                   /\ Truthy(conceptAt(i)) =>
                        /\ content.sections[1 + i].heading = conceptAt(i)
                        /\ content.sections[1 + i].imageCaption = conceptAt(i)
            /\ \A i \in 1..nf :
                   /\ content.sections[1 + nd + i].src = <<"flow", i>>
                   /\ content.sections[1 + nd + i].isFlowchart

\* the placeholder lines drawn for visual v: those of the section that
\* shows v, or, when no section shows it, none
PlaceholdersOf(v) ==
    {j \in 1..Len(drawn) :
        drawn[j].op = "placeholder" /\ content.sections[drawn[j].sec].src = v}

EmbedsOf(v) ==
    {j \in 1..Len(drawn) :
        drawn[j].op \in {"embed", "image"} /\ content.sections[drawn[j].sec].src = v}

\* C8: a result with error set and no buffer yields exactly one
\* "visualization unavailable" line in the returned document and no embed
\* or image draw.
C8_PlaceholderForFailedVisual ==
    (Returned /\ stage = "primary") =>
        \A v \in Visuals \ BufferedVisuals :
            /\ Cardinality(PlaceholdersOf(v)) = 1
            /\ EmbedsOf(v) = {}

-----------------------------------------------------------------------------
(* Properties of the sizing policy, checked under SpecSize                 *)

Sized == pc = "sized"

\* C9: a diagram is rendered at most 0.5 x 512 = 256 wide and
\* 0.4 x 792 = 316.8 high, a flowchart at most 0.8 x 512 = 409.6 wide and
\* 0.5 x 792 = 396 high, and the rendered aspect ratio is the natural one.
C9_SizingBounds ==
    Sized =>
        /\ ~image.isFlowchart =>
              /\ RatLeq(dimensions.width, Rat(256, 1))
              /\ RatLeq(dimensions.height, Rat(3168, 10))
        /\ image.isFlowchart =>
              /\ RatLeq(dimensions.width, Rat(4096, 10))
              /\ RatLeq(dimensions.height, Rat(396, 1))
        /\ dimensions.width.n * dimensions.height.d * image.height
             = dimensions.height.n * dimensions.width.d * image.width

\* a tall diagram, sized by the height cap
C9_Witness ==
    /\ Sized
    /\ ~image.isFlowchart
    /\ image.height = 2 * image.width
    /\ dimensions.height = Rat(3168, 10)
    /\ dimensions.width = Rat(1584, 10)

\* C10 as stated: in either role the rendered width is at most the natural
\* width and the rendered height at most the natural height.
C10_NeverScaledUp ==
    Sized =>
        /\ RatLeq(dimensions.width, Rat(image.width, 1))
        /\ RatLeq(dimensions.height, Rat(image.height, 1))

\* C10 as amended: a flowchart is never rendered larger than its natural
\* size (a diagram is brought to the target width whatever its size).
C10_FlowchartNeverScaledUp ==
    (Sized /\ image.isFlowchart) =>
        /\ RatLeq(dimensions.width, Rat(image.width, 1))
        /\ RatLeq(dimensions.height, Rat(image.height, 1))

\* a flowchart smaller than the box keeps its natural size
C10_Witness ==
    /\ Sized
    /\ image.isFlowchart
    /\ image.width = SizeStep /\ image.height = SizeStep
    /\ dimensions.width = Rat(image.width, 1)
    /\ dimensions.height = Rat(image.height, 1)

-----------------------------------------------------------------------------
(* Properties of the catch chain, checked under SpecFaulty                 *)

Finished == pc = "done"

\* C1 as stated: for every input and every fault of a measuring, drawing
\* or serializing primitive the call returns a non-empty PDF buffer and
\* never throws.
C1_NeverThrows == Finished => result = "buffer"

\* C1 as amended: the call returns a PDF buffer for every input when no
\* primitive faults (unembeddable buffers, empty concept lists, a missing
\* plan or a null noteData included), and under faults whenever one of the
\* builds completes; it throws only when a fault also stops the last-resort
\* document after all earlier builds have failed.
C1_ReturnsBufferUnlessLastResortFails ==
    Finished =>
        /\ result \in {"buffer", "thrown"}
        /\ result = "thrown" => (stage = "lastResort" /\ faults >= 1)
        /\ faults = 0 => result = "buffer"

\* the primary build of a call with an unembeddable buffer fails on a
\* fault, the error document fails too, and the last resort is returned
C1_Witness ==
    /\ Finished
    /\ result = "buffer"
    /\ stage = "lastResort"
    /\ error.kind = "other"
    /\ \E i \in 1..Len(diagrams) : diagrams[i].buffer = "junk"
    /\ ~docStructure.given

Failed(st) == \E j \in 1..Len(failed) : failed[j] = st

\* C13: the call throws only after the primary build, the error-document
\* build and the last-resort document have all failed, and the error it
\* throws is the one the primary build raised (the one the first catch
\* caught), never the error of a later stage.
C13_ThrowsOriginalAfterAllFail ==
    result = "thrown" =>
        /\ Failed("primary") /\ Failed("errorDoc") /\ Failed("lastResort")
        /\ failed[1] = "primary"
        /\ failed[Len(failed)] = "lastResort"
        /\ pending = error
        /\ pending.stage = "primary"

\* the primary build, the error document and the last resort fail one
\* after the other and the call throws
C13_Witness ==
    /\ result = "thrown"
    /\ failed = <<"primary", "errorDoc", "lastResort">>
    /\ error.kind = "other"

\* C14: whenever an exception was raised during assembly or rendering,
\* whatever its kind, the returned document has exactly two sections, the
\* error message followed by the summary, and no image.
C14_TwoSectionErrorDocument ==
    (Finished /\ result = "buffer" /\ error # NoError) =>
        /\ stage = "errorDoc"
        /\ Len(content.sections) = 2
        /\ content.sections[1].heading = sErrorInformation
        /\ content.sections[2].heading = sContentSummary
        /\ \A j \in 1..Len(drawn) : drawn[j].op \notin {"embed", "image"}

\* section k of the content has been rendered on the current document
Rendered(k) ==
    /\ pc \in {"sections", "done"}
    /\ stage # "lastResort"
    /\ k \in 1..Len(content.sections)
    /\ k < renderIdx

CmdsOf(k, op) == {j \in 1..Len(drawn) : drawn[j].sec = k /\ drawn[j].op = op}

\* C20: a section whose buffer can be embedded neither as PNG nor as JPEG
\* is rendered as a text-only section: addImage tries the embedding once,
\* draws no image, the build goes on, the whole body text is drawn and one
\* placeholder line is appended, for flowchart sections and for diagram
\* sections with body text alike.
C20_UnembeddableRendersTextAndPlaceholder ==
    \A k \in 1..Len(content.sections) :
        LET section == content.sections[k]
        IN  (/\ Rendered(k)
             /\ section.layout = "text-with-image"
             /\ section.imageBuffer = "junk"
             /\ (section.isFlowchart \/ section.text # ""))
            => /\ Cardinality(CmdsOf(k, "embed")) = 1
               /\ CmdsOf(k, "image") = {}
               /\ section.text # "" => Cardinality(CmdsOf(k, "text")) = 1
               /\ Cardinality(CmdsOf(k, "placeholder")) = 1

-----------------------------------------------------------------------------
(* Properties of the layout, checked under SpecLayout                      *)

\* the section laid out last is a diagram section with body text whose
\* image was placed
SideBySide ==
    /\ layout.pc \in {"sections", "thrown", "saved"}
    /\ layout.count > 0
    /\ layout.section.image.kind = "diagram"
    /\ layout.section.text # <<>>
    /\ layout.imageResult.placed

DrawsOf(kind) == {j \in 1..Len(layout.draws) : layout.draws[j].kind = kind}

\* C11: in the side-by-side layout every body-text line either starts at
\* or right of image.x + image.width + 30 (the right column) or lies below
\* the image's bottom edge (or on a later page): no line overlaps the
\* bounding box of the image.
C11_TextClearOfImage ==
    SideBySide =>
        \A t \in DrawsOf("text") : \A m \in DrawsOf("image") :
            LET line == layout.draws[t]
                img == layout.draws[m]
            IN  \/ line.x >= img.x + img.width + Pt(30)
                \/ line.page # img.page
                \/ line.y < img.y

\* a text longer than the image: lines in the right column and lines at
\* the left margin, on the page of the image
C11_Witness ==
    /\ SideBySide
    /\ \E m \in DrawsOf("image") :
          /\ \E t \in DrawsOf("text") :
                /\ layout.draws[t].page = layout.draws[m].page
                /\ layout.draws[t].x = Pt(margin)
          /\ \E t \in DrawsOf("text") :
                /\ layout.draws[t].page = layout.draws[m].page
                /\ layout.draws[t].x > Pt(margin)
                /\ layout.draws[t].y > layout.draws[m].y

usableHeight == pageHeight - 2 * margin

Ceil(a, b) == (a + b - 1) \div b

\* C12: when the cumulative rendered height of the sections exceeds one
\* page, the number of pages is within 1 of ceil(totalHeight / 692), and
\* every text line lies on one page.
C12_PageCount ==
    (layout.pc = "saved" /\ layout.consumed > Pt(usableHeight)) =>
        /\ layout.page - Ceil(layout.consumed, Pt(usableHeight)) \in {-1, 0, 1}
        /\ \A j \in 1..Len(layout.draws) :
              layout.draws[j].y >= 0 /\ layout.draws[j].y <= Pt(pageHeight)

\* C19: every text line, caption and image is drawn with its y-coordinates
\* inside [margin, pageHeight - margin] = [50, 742].
C19_DrawsInsideMargins ==
    layout.pc \in {"sections", "thrown", "saved"} =>
        \A j \in 1..Len(layout.draws) :
            /\ layout.draws[j].y >= Pt(margin)
            /\ layout.draws[j].y + layout.draws[j].height <= Pt(pageHeight - margin)

-----------------------------------------------------------------------------
(* Properties of the visual batches, checked under SpecBatch               *)

\* results has one entry per prompt, entry i carrying index i (from 0)
FullyIndexed(results, prompts) ==
    /\ Len(results) = Len(prompts)
    /\ \A j \in 1..Len(results) : results[j].index = j - 1

BatchLoops == {batch.d, batch.f}

\* C15: generateAllDiagrams and generateAllFlowcharts return exactly one
\* result per prompt, result i carrying index i, whatever succeeded and
\* failed, and the response of /generate-visuals has one entry per prompt.
C15_OneResultPerPrompt ==
    /\ batch.d.pc = "returned" => FullyIndexed(batch.d.results, batch.diagramPrompts)
    /\ batch.f.pc = "returned" => FullyIndexed(batch.f.results, batch.flowchartPrompts)
    /\ (batch.pc = "responded" /\ batch.response.status = 200) =>
          /\ FullyIndexed(batch.response.diagrams, batch.diagramPrompts)
          /\ FullyIndexed(batch.response.flowcharts, batch.flowchartPrompts)

\* C16: an item whose external call failed has error set and no buffer,
\* and the items whose call succeeded have their image and no error.
C16_FailedItemCarriesError ==
    \A loop \in BatchLoops : \A j \in 1..Len(loop.results) :
        /\ loop.outcomes[j] = "fail" =>
              (loop.results[j].buffer = "null" /\ loop.results[j].error # "null")
        /\ loop.outcomes[j] = "ok" =>
              (loop.results[j].buffer = "png" /\ loop.results[j].error = "null")

\* C17: every result entry has exactly one of buffer and error set.
C17_ExactlyOneOfBufferAndError ==
    \A loop \in BatchLoops : \A j \in 1..Len(loop.results) :
        (loop.results[j].buffer # "null") <=> (loop.results[j].error = "null")

\* C18: when the external call of an item never returns, the batch still
\* returns in the end, with a full result list in which the item carries
\* an error.
C18_HungItemDoesNotBlockBatch ==
    /\ (batch.d.pc = "hung") ~>
          (/\ batch.d.pc = "returned"
           /\ FullyIndexed(batch.d.results, batch.diagramPrompts)
           /\ \E j \in 1..Len(batch.d.results) : batch.d.results[j].error # "null")
    /\ (batch.f.pc = "hung") ~>
          (/\ batch.f.pc = "returned"
           /\ FullyIndexed(batch.f.results, batch.flowchartPrompts)
           /\ \E j \in 1..Len(batch.f.results) : batch.f.results[j].error # "null")

-----------------------------------------------------------------------------
(* Properties of the side-by-side layout, checked under SpecLayout         *)

\* the placement of the section's image
TheImage == layout.draws[CHOOSE m \in DrawsOf("image") : TRUE]

\* the body-text lines drawn in the right column, and those drawn from the
\* left margin
RightColumn == {t \in DrawsOf("text") : layout.draws[t].x > Pt(margin)}

FullWidth == {t \in DrawsOf("text") : layout.draws[t].x = Pt(margin)}

\* the cursor when the body of the next section starts, after its heading
BodyStart(section) ==
    afterHeading([layout EXCEPT !.draws = <<>>, !.units = <<>>,
                                !.imageResult = NoPlacement], section)

\* a step that lays out a diagram section with body text
SideBySideStep == layout.pc = "sections" /\ layout'.count = layout.count + 1 /\ SideBySide'

\* C24: a diagram section with body text whose body starts with less than
\* 250pt above the bottom margin has its diagram placed at the top of a
\* new page, and the first right-column line is drawn on the page of the
\* diagram: no page is appended between the two.
C24_SideBySideStartsWithRoom ==
    [][SideBySideStep =>
          /\ BodyStart(layout'.section).y - Pt(margin) < Pt(250) =>
                /\ TheImage'.page = BodyStart(layout'.section).page + 1
                /\ TheImage'.y + TheImage'.height = Pt(pageHeight - margin)
          /\ \A t \in RightColumn' :
                (\A u \in RightColumn' : t <= u) => layout'.draws[t].page = TheImage'.page]_vars

\* C25: every line drawn in the right column, on the page of the image, is
\* drawn at a y at or above the image's bottom edge (image top - rendered
\* height).
C25_RightColumnAboveImageBottom ==
    SideBySide =>
        \A t \in RightColumn :
            layout.draws[t].page = TheImage.page => layout.draws[t].y >= TheImage.y

\* the placement a lies lower in the document than the placement b
Below(a, b) == a.page > b.page \/ (a.page = b.page /\ a.y < b.y)

NoBreakDuringText ==
    /\ SideBySide
    /\ layout.pc # "thrown"
    /\ \A t \in DrawsOf("text") : layout.draws[t].page = layout.page

\* C27: after a side-by-side section laid out without a page break during
\* its text, the cursor lies at or below every placement of the section on
\* the cursor's page: right-column lines, full-width lines, image bottom
\* edge and caption.
C27_CursorBelowSection ==
    NoBreakDuringText =>
        \A j \in DrawsOf("text") \cup DrawsOf("image") \cup DrawsOf("caption") :
            layout.draws[j].page = layout.page => layout.y <= layout.draws[j].y

\* the section laid out last is a diagram section without body text
DiagramAlone ==
    /\ layout.pc \in {"sections", "saved"}
    /\ layout.count > 0
    /\ layout.section.image.kind = "diagram"
    /\ layout.section.text = <<>>
    /\ layout.imageResult.placed

\* C28: a diagram section without body text has its diagram centered in
\* the content column, x = margin + (contentWidth - width) / 2, and sized
\* from a target width of 70% of the content width: 70% wide, or as high
\* as 40% of the page when that width would make it higher.
C28_DiagramAloneCentered ==
    DiagramAlone =>
        /\ 2 * (TheImage.x - Pt(margin)) = Pt(contentWidth) - TheImage.width
        /\ \/ 10 * TheImage.width = 7 * Pt(contentWidth)
           \/ 10 * TheImage.height = 4 * Pt(pageHeight)

\* C29: in the side-by-side layout each word of the body text (each part
\* of a word with line breaks) is passed to drawText exactly once, in
\* input order.
C29_EachWordDrawnOnce ==
    SideBySide =>
        layout.units = unitsFrom(layout.section.text, 1, Len(layout.section.text))

\* C30: in the side-by-side layout every right-column line and the first
\* full-width line are drawn on the page of the diagram image.
C30_TextOnPageOfImage ==
    SideBySide =>
        /\ \A t \in RightColumn : layout.draws[t].page = TheImage.page
        /\ \A t \in FullWidth :
              (\A u \in FullWidth : t <= u) => layout.draws[t].page = TheImage.page

-----------------------------------------------------------------------------
(* Properties of the strings measured and drawn, checked under SpecGlyph   *)

Calls == 1..Len(glyph.out)

\* C21: every drawText call that fails as a first attempt is followed by
\* one retry at the same place with the text stripped of everything but
\* printable ASCII, and a retry follows nothing but a failed first attempt.
C21_FailedDrawRetriedOnce ==
    \A j \in Calls :
        /\ (~glyph.out[j].ok /\ ~glyph.out[j].retry) =>
              /\ j < Len(glyph.out)
              /\ glyph.out[j + 1].retry
              /\ glyph.out[j + 1].site = glyph.out[j].site
              /\ glyph.out[j + 1].text = safeLine(glyph.out[j].text)
        /\ glyph.out[j].retry =>
              (j > 1 /\ ~glyph.out[j - 1].ok /\ ~glyph.out[j - 1].retry)

\* the number of printable non-space characters of s
ink(s) == Cardinality({j \in 1..Len(s) : s[j] = "a"})

\* the ink of the texts of a sequence of drawText calls
RECURSIVE inkOf(_)
inkOf(out) == IF out = <<>> THEN 0 ELSE ink(Head(out).text) + inkOf(Tail(out))

\* C22: when a line fails to draw and its retry fails too, generatePDF
\* does not throw, and at the end of the text everything but the lines
\* whose retry failed has been drawn.
C22_FailedRetryDropsOneLine ==
    (\E j \in Calls : glyph.out[j].retry /\ ~glyph.out[j].ok) =>
        /\ glyph.pc # "thrown"
        /\ (glyph.pc = "done" /\ glyph.path = "addText") =>
              inkOf(SelectSeq(glyph.out, LAMBDA c : c.ok))
              + inkOf(SelectSeq(glyph.out, LAMBDA c : c.retry /\ ~c.ok))
              = ink(glyph.text)

hasNonAscii(s) == \E j \in 1..Len(s) : s[j] \in NonAscii

\* C23: no string handed to widthOfTextAtSize and no body-text string
\* handed to drawText holds a non-ASCII character.
C23_OnlyAsciiReachesTheFont ==
    /\ \A j \in 1..Len(glyph.measured) : ~hasNonAscii(glyph.measured[j])
    /\ \A j \in Calls :
          glyph.out[j].site # "caption" => ~hasNonAscii(glyph.out[j].text)

=============================================================================
